---------------------------- MODULE Spec2Model ----------------------------
(***************************************************************************)
(* M5Cube: orientation-driven multi-player timer (src/M5Cube.ino, the      *)
(* Fire/CoreS3 firmware that starts at line 591 of that file).             *)
(*                                                                         *)
(* The firmware is one cooperative loop().  One pass of loop() is modelled *)
(* as five consecutive steps, tracked by pc:                                *)
(*   "imu"     : the rate-limited IMU poll                                 *)
(*   "buttons" : handleButtons()                                           *)
(*   "battery" : the 5000 ms battery scheduling                            *)
(*   "timer"   : the 1000 ms timer block                                   *)
(*   "blink"   : the 400 ms blink block                                    *)
(* Every C function is an operator from a state record to a state record,  *)
(* so that the sequential composition of the code is the composition of    *)
(* the operators.  Accelerations are in tenths of g (0.9f is 9).  The      *)
(* millisecond clock is not part of this state: whether an interval has    *)
(* elapsed is an input of the step.                                        *)
(***************************************************************************)
EXTENDS Integers, Sequences, FiniteSets, TLC

(***************************************************************************)
(* Program constants                                                       *)
(***************************************************************************)
ACCEL_THRESHOLD == 9
ACCEL_THRESHOLD_BACK == -9

TONE_FREQ_HIGH == 2800
TONE_FREQ_MID == 1800
TONE_FREQ_LOW == 1000
TONE_DURATION_LONG == 100
TONE_DURATION_WARNING == 100
TONE_DURATION_SHORT == 50

WARNING_TIME_10SEC == 10
WARNING_TIME_5SEC == 5
WARNING_TIME_4SEC == 4
WARNING_TIME_3SEC == 3
WARNING_TIME_2SEC == 2
WARNING_TIME_1SEC == 1

SECONDS_PER_MINUTE == 60
SECONDS_PER_TEN_MINUTES == 600
MAX_PLAYERS == 5
MAX_DIGIT_TENS_MINUTES == 5
MAX_DIGIT_ONES == 9
MAX_DIGIT_TENS_SECONDS == 5
LONG_PRESS_DURATION == 1000
TIMER_INTERVAL == 1000
BLINK_INTERVAL == 400
\* unsigned long is 32 bits wide on the ESP32; a value is held as its two
\* 16-bit halves <<high, low>>
ULONG_BITS == 32
HalfRange == 2 ^ (ULONG_BITS \div 2)

\* enum DeviceType, enum TimerMode, enum ScreenState
DeviceType == {"DEVICE_FIRE", "DEVICE_CORES3"}
TimerMode == {"GAME_TIMER", "MOVE_TIMER"}
ScreenState == {"SCREEN_SOUND_SELECT", "SCREEN_MODE_SELECT", "SCREEN_SETUP", "SCREEN_TIMER"}

Players == 0 .. (MAX_PLAYERS - 1)
WarningTimes == {WARNING_TIME_10SEC, WARNING_TIME_5SEC, WARNING_TIME_4SEC,
                 WARNING_TIME_3SEC, WARNING_TIME_2SEC, WARNING_TIME_1SEC}

(***************************************************************************)
(* Bounds of the model                                                     *)
(***************************************************************************)
\* largest MM:SS total (seconds) that the Left presses of the Setup screen may dial
MaxSeconds == 2
\* largest stored overtime count at which a timer tick is still taken
MaxOvertime == 2
\* a tick is taken only while a player has fewer timeout tones than this on record
MaxTimeouts == 2
\* accelerations the exhaustive classifier check ranges over, in tenths of g
MaxAccel == 10
\* ticks followed after each start when every digit entry may be committed
MaxCommitTicks == 1

(***************************************************************************)
(* Program state                                                           *)
(***************************************************************************)
VARIABLES
    pc,                     \* position inside loop()
    deviceType, soundEnabled, soundSelectPosition, currentTimerMode,
    currentScreen, modeSelectPosition,
    timeList, negativeList, moveTimeRemaining, currentFace,
    statusFlg, startFlg, pauseFlg,
    updatePosition, dig, initDig, moveTimerDig,
    blinkState, needsFullRedraw, needsBatteryUpdate, isDisplayOn,
    isPlayingWarningSound, warningFlags,
    btnCPressTime, btnCLongPressed,
    touchRightPressTime, touchRightLongPressed, touchRightCurrentlyPressed,
    btnCHeldMs,             \* millis() - btnCPressTime while btnCPressTime is set
    touchRightHeldMs,       \* millis() - touchRightPressTime while it is set
    accel,                  \* <<accelX, accelY, accelZ>>
    threshold,              \* the classifier's threshold (ACCEL_THRESHOLD)
    tones,                  \* tones played by the last step, in order
    draws,                  \* draw calls made by the last step, in order
    shownLog,               \* per player: times shown by the Game-Timer ticks since Start
    toneLog,                \* per player: warning/timeout tones of the current countdown
    holdFrom,               \* screen on which the Right hold being timed began, or "none"
    lastStep,               \* what the last step was given and found
    now,                    \* what millis() returns
    currentTime,            \* loop()'s local: millis() as read at the top of the pass
    lastTimerUpdate, lastBlinkUpdate,
    uptime,                 \* milliseconds followed so far
    sinceTimerFire,         \* ms from the currentTime of the last timer tick to now, capped
    sinceBlinkFire,         \* ms from the currentTime of the last blink tick to now, capped
    sincePress,             \* ms from the last Start or Resume to now, capped
    twin                    \* the globals of a second run given the same events, or NoTwin

progVars == <<deviceType, soundEnabled, soundSelectPosition, currentTimerMode,
              currentScreen, modeSelectPosition,
              timeList, negativeList, moveTimeRemaining, currentFace,
              statusFlg, startFlg, pauseFlg,
              updatePosition, dig, initDig, moveTimerDig,
              blinkState, needsFullRedraw, needsBatteryUpdate, isDisplayOn,
              isPlayingWarningSound, warningFlags,
              btnCPressTime, btnCLongPressed,
              touchRightPressTime, touchRightLongPressed, touchRightCurrentlyPressed,
              btnCHeldMs, touchRightHeldMs,
              accel, threshold>>

clockVars == <<now, currentTime, lastTimerUpdate, lastBlinkUpdate,
               uptime, sinceTimerFire, sinceBlinkFire, sincePress>>

vars == <<pc, progVars, tones, draws, shownLog, toneLog, holdFrom, lastStep, clockVars,
          twin>>

\* the globals as one record; tones and draws start empty for the step
State ==
    [deviceType |-> deviceType, soundEnabled |-> soundEnabled,
     soundSelectPosition |-> soundSelectPosition,
     currentTimerMode |-> currentTimerMode, currentScreen |-> currentScreen,
     modeSelectPosition |-> modeSelectPosition,
     timeList |-> timeList, negativeList |-> negativeList,
     moveTimeRemaining |-> moveTimeRemaining, currentFace |-> currentFace,
     statusFlg |-> statusFlg, startFlg |-> startFlg, pauseFlg |-> pauseFlg,
     updatePosition |-> updatePosition, dig |-> dig, initDig |-> initDig,
     moveTimerDig |-> moveTimerDig,
     blinkState |-> blinkState, needsFullRedraw |-> needsFullRedraw,
     needsBatteryUpdate |-> needsBatteryUpdate, isDisplayOn |-> isDisplayOn,
     isPlayingWarningSound |-> isPlayingWarningSound, warningFlags |-> warningFlags,
     btnCPressTime |-> btnCPressTime, btnCLongPressed |-> btnCLongPressed,
     touchRightPressTime |-> touchRightPressTime,
     touchRightLongPressed |-> touchRightLongPressed,
     touchRightCurrentlyPressed |-> touchRightCurrentlyPressed,
     btnCHeldMs |-> btnCHeldMs, touchRightHeldMs |-> touchRightHeldMs,
     holdFrom |-> holdFrom,
     accel |-> accel, threshold |-> threshold,
     tones |-> <<>>, draws |-> <<>>,
     shownLog |-> shownLog, toneLog |-> toneLog]

\* the globals after the step are the fields of s
Commit(s) ==
    /\ deviceType' = s.deviceType
    /\ soundEnabled' = s.soundEnabled
    /\ soundSelectPosition' = s.soundSelectPosition
    /\ currentTimerMode' = s.currentTimerMode
    /\ currentScreen' = s.currentScreen
    /\ modeSelectPosition' = s.modeSelectPosition
    /\ timeList' = s.timeList
    /\ negativeList' = s.negativeList
    /\ moveTimeRemaining' = s.moveTimeRemaining
    /\ currentFace' = s.currentFace
    /\ statusFlg' = s.statusFlg
    /\ startFlg' = s.startFlg
    /\ pauseFlg' = s.pauseFlg
    /\ updatePosition' = s.updatePosition
    /\ dig' = s.dig
    /\ initDig' = s.initDig
    /\ moveTimerDig' = s.moveTimerDig
    /\ blinkState' = s.blinkState
    /\ needsFullRedraw' = s.needsFullRedraw
    /\ needsBatteryUpdate' = s.needsBatteryUpdate
    /\ isDisplayOn' = s.isDisplayOn
    /\ isPlayingWarningSound' = s.isPlayingWarningSound
    /\ warningFlags' = s.warningFlags
    /\ btnCPressTime' = s.btnCPressTime
    /\ btnCLongPressed' = s.btnCLongPressed
    /\ touchRightPressTime' = s.touchRightPressTime
    /\ touchRightLongPressed' = s.touchRightLongPressed
    /\ touchRightCurrentlyPressed' = s.touchRightCurrentlyPressed
    /\ btnCHeldMs' = s.btnCHeldMs
    /\ touchRightHeldMs' = s.touchRightHeldMs
    /\ holdFrom' = s.holdFrom
    /\ accel' = s.accel
    /\ threshold' = s.threshold
    /\ tones' = s.tones
    /\ draws' = s.draws
    /\ shownLog' = s.shownLog
    /\ toneLog' = s.toneLog

(***************************************************************************)
(* Utility functions                                                       *)
(***************************************************************************)
isValidPlayerIndex(playerIndex) ==
    playerIndex >= 0 /\ playerIndex < MAX_PLAYERS

\* calculateTimeDigits that takes the minutes digit from all the minutes
calculateTimeDigitsAllMinutes(totalSeconds) ==
    << totalSeconds \div SECONDS_PER_TEN_MINUTES,
       totalSeconds \div SECONDS_PER_MINUTE,
       (totalSeconds % SECONDS_PER_MINUTE) \div 10,
       totalSeconds % 10 >>

\* the digits <<dig1, dig2, dig3, dig4>> of totalSeconds as MM:SS
calculateTimeDigits(totalSeconds) ==
    LET remainder == totalSeconds % SECONDS_PER_TEN_MINUTES
        secondsRemainder == remainder % SECONDS_PER_MINUTE
    IN  << totalSeconds \div SECONDS_PER_TEN_MINUTES,
           remainder \div SECONDS_PER_MINUTE,
           secondsRemainder \div 10,
           secondsRemainder % 10 >>

\* the seconds that four setup digits stand for (initializeTimers, switchToNextPlayer)
DigitsToSeconds(d) ==
    d[1] * SECONDS_PER_TEN_MINUTES + d[2] * SECONDS_PER_MINUTE + d[3] * 10 + d[4]

\* M5.Speaker.tone(frequency, duration)
playTone(s, frequency, duration) ==
    [s EXCEPT !.tones = Append(@, <<frequency, duration>>)]


\* the block "isPlayingWarningSound = true; playTone(f, d); delay(..); isPlayingWarningSound = false"
playBlockingLeavesFlag(s, frequency, duration) ==
    playTone([s EXCEPT !.isPlayingWarningSound = TRUE], frequency, duration)

playBlocking(s, frequency, duration) ==
    [playTone([s EXCEPT !.isPlayingWarningSound = TRUE], frequency, duration)
        EXCEPT !.isPlayingWarningSound = FALSE]

(***************************************************************************)
(* IMU and orientation detection                                           *)
(***************************************************************************)
\* first match in the order of the source; -1 is "no clear orientation"
\* the classifier with the X axis tested before the Y axis
detectOrientationAtXFirst(a, t) ==
    IF a[1] >= t THEN 1
    ELSE IF a[2] >= t THEN 0
    ELSE IF a[1] <= -t THEN 3
    ELSE IF a[2] <= -t THEN 2
    ELSE IF a[3] >= t THEN 4
    ELSE -1

\* the classifier with the face-down test ahead of the five faces
detectOrientationAtDownFirst(a, t) ==
    IF a[3] <= -t THEN -1
    ELSE IF a[2] >= t THEN 0
    ELSE IF a[1] >= t THEN 1
    ELSE IF a[2] <= -t THEN 2
    ELSE IF a[1] <= -t THEN 3
    ELSE IF a[3] >= t THEN 4
    ELSE -1

detectOrientationAt(a, t) ==
    IF a[2] >= t THEN 0
    ELSE IF a[1] >= t THEN 1
    ELSE IF a[2] <= -t THEN 2
    ELSE IF a[1] <= -t THEN 3
    ELSE IF a[3] >= t THEN 4
    ELSE -1

detectOrientation(s) == detectOrientationAt(s.accel, s.threshold)

\* sample is the reading M5.Imu delivers, or NoSample when there is nothing new
NoSample == <<>>

updateIMU(s, sample) ==
    IF sample = NoSample THEN s ELSE [s EXCEPT !.accel = sample]

(***************************************************************************)
(* Display management and rendering                                        *)
(***************************************************************************)
\* turnOffDisplay followed by one more repaint of the timer
turnOffDisplayThenDraw(s) ==
    IF s.isDisplayOn
    THEN [s EXCEPT !.isDisplayOn = FALSE,
                   !.draws = Append(@, [fn |-> "drawTimerDisplayFull", text |-> s.dig,
                                        color |-> "COLOR_WHITE", battery |-> TRUE,
                                        lit |-> FALSE])]
    ELSE s

turnOffDisplay(s) ==
    IF s.isDisplayOn THEN [s EXCEPT !.isDisplayOn = FALSE] ELSE s

turnOnDisplay(s) ==
    IF ~s.isDisplayOn THEN [s EXCEPT !.isDisplayOn = TRUE] ELSE s

\* the colour both timer renderers compute for the digits
timerColor(s) ==
    IF s.currentTimerMode = "GAME_TIMER" /\ isValidPlayerIndex(s.currentFace)
          /\ s.negativeList[s.currentFace] = 1
    THEN "COLOR_RED"
    ELSE IF s.currentTimerMode = "MOVE_TIMER" /\ s.moveTimeRemaining = 0
    THEN "COLOR_RED"
    ELSE "COLOR_WHITE"

\* a draw call: the function, the digits it formats, their colour, whether it
\* (re)draws the battery indicator, and whether the display is on at the call
Draw(s, fn, color, battery) ==
    [s EXCEPT !.draws = Append(@, [fn |-> fn, text |-> s.dig, color |-> color,
                                    battery |-> battery, lit |-> s.isDisplayOn])]

drawBatteryInfo(s) == Draw(s, "drawBatteryInfo", "NONE", TRUE)

drawTimerDisplayFull(s) == Draw(s, "drawTimerDisplayFull", timerColor(s), TRUE)

updateTimerOnly(s) == Draw(s, "updateTimerOnly", timerColor(s), FALSE)

drawSoundSelectScreenFull(s) == Draw(s, "drawSoundSelectScreenFull", "NONE", TRUE)

updateSoundSelectOnly(s) == Draw(s, "updateSoundSelectOnly", "NONE", FALSE)

drawModeSelectScreenFull(s) == Draw(s, "drawModeSelectScreenFull", "NONE", TRUE)

updateModeSelectOnly(s) == Draw(s, "updateModeSelectOnly", "NONE", FALSE)

drawSetupModeFull(s) == Draw(s, "drawSetupModeFull", "COLOR_WHITE", TRUE)

updateSetupTimerOnly(s) == Draw(s, "updateSetupTimerOnly", "COLOR_WHITE", FALSE)

(***************************************************************************)
(* Timer logic                                                             *)
(***************************************************************************)
\* playerIndex = -1 resets every player
resetWarningFlags(s, playerIndex) ==
    LET cleared ==
            IF playerIndex = -1
            THEN [s EXCEPT !.warningFlags =
                      [w \in WarningTimes |-> [i \in Players |-> FALSE]]]
            ELSE IF isValidPlayerIndex(playerIndex)
            THEN [s EXCEPT !.warningFlags =
                      [w \in WarningTimes |->
                          [i \in Players |-> IF i = playerIndex THEN FALSE ELSE @[w][i]]]]
            ELSE s
    IN  [cleared EXCEPT !.isPlayingWarningSound = FALSE]

checkTimeWarningsIgnoresSound(s, remainingSeconds, playerIndex) ==
    IF ~isValidPlayerIndex(playerIndex) THEN s
    ELSE IF remainingSeconds = WARNING_TIME_10SEC
               /\ ~s.warningFlags[WARNING_TIME_10SEC][playerIndex]
    THEN LET s1 == [s EXCEPT !.warningFlags[WARNING_TIME_10SEC][playerIndex] = TRUE,
                             !.toneLog[playerIndex] = Append(@, remainingSeconds)]
         IN  playBlocking(s1, TONE_FREQ_MID, TONE_DURATION_LONG * 2)
    ELSE IF remainingSeconds <= WARNING_TIME_5SEC /\ remainingSeconds >= WARNING_TIME_1SEC
               /\ ~s.warningFlags[remainingSeconds][playerIndex]
    THEN LET s1 == [s EXCEPT !.warningFlags[remainingSeconds][playerIndex] = TRUE,
                             !.toneLog[playerIndex] = Append(@, remainingSeconds)]
         IN  playBlocking(s1, TONE_FREQ_LOW, TONE_DURATION_WARNING * 2)
    ELSE s

checkTimeWarnings(s, remainingSeconds, playerIndex) ==
    IF ~s.soundEnabled \/ ~isValidPlayerIndex(playerIndex) THEN s
    ELSE IF remainingSeconds = WARNING_TIME_10SEC
               /\ ~s.warningFlags[WARNING_TIME_10SEC][playerIndex]
    THEN LET s1 == [s EXCEPT !.warningFlags[WARNING_TIME_10SEC][playerIndex] = TRUE,
                             !.toneLog[playerIndex] = Append(@, remainingSeconds)]
         IN  playBlocking(s1, TONE_FREQ_MID, TONE_DURATION_LONG * 2)
    ELSE IF remainingSeconds <= WARNING_TIME_5SEC /\ remainingSeconds >= WARNING_TIME_1SEC
    THEN IF ~s.warningFlags[remainingSeconds][playerIndex]
         THEN LET s1 == [s EXCEPT !.warningFlags[remainingSeconds][playerIndex] = TRUE,
                                  !.toneLog[playerIndex] = Append(@, remainingSeconds)]
              IN  playBlocking(s1, TONE_FREQ_LOW, TONE_DURATION_WARNING * 2)
         ELSE s
    ELSE s

\* the "time's up" tone of both timer modes
timeoutTone(s, playerIndex) ==
    IF s.soundEnabled
    THEN playBlocking([s EXCEPT !.toneLog[playerIndex] = Append(@, 0)],
                      TONE_FREQ_LOW, TONE_DURATION_WARNING * 3)
    ELSE s

\* updateGameTimer with an off-by-one entry into overtime: the count-up
\* restarts from 0, so 00:00 would be displayed twice
updateGameTimerFromZero(s, faceIndex) ==
    IF ~isValidPlayerIndex(faceIndex) THEN s
    ELSE
      LET totalTime == s.timeList[faceIndex] IN
      IF s.negativeList[faceIndex] # 1
      THEN IF totalTime > 0
           THEN checkTimeWarnings(
                    [s EXCEPT !.dig = calculateTimeDigits(totalTime),
                              !.timeList[faceIndex] = totalTime - 1,
                              !.shownLog[faceIndex] = Append(@, totalTime)],
                    totalTime, faceIndex)
           ELSE timeoutTone([s EXCEPT !.dig = <<0, 0, 0, 0>>,
                                      !.negativeList[faceIndex] = 1,
                                      !.timeList[faceIndex] = 0,
                                      !.shownLog[faceIndex] = Append(@, 0)],
                            faceIndex)
      ELSE [s EXCEPT !.dig = calculateTimeDigits(totalTime),
                     !.timeList[faceIndex] = totalTime + 1,
                     !.shownLog[faceIndex] = Append(@, totalTime)]

\* updateGameTimer with one clock for all players: every slot that still has
\* time runs down on every tick
updateGameTimerAllSlots(s, faceIndex) ==
    [s EXCEPT !.timeList = [i \in Players |-> IF @[i] > 0 THEN @[i] - 1 ELSE @[i]]]

\* updateGameTimer without the overtime mode: the slot keeps counting down
updateGameTimerBelowZero(s, faceIndex) ==
    IF ~isValidPlayerIndex(faceIndex) THEN s
    ELSE [s EXCEPT !.dig = calculateTimeDigits(IF s.timeList[faceIndex] > 0
                                               THEN s.timeList[faceIndex] ELSE 0),
                   !.timeList[faceIndex] = @ - 1]

updateGameTimer(s, faceIndex) ==
    IF ~isValidPlayerIndex(faceIndex) THEN s
    ELSE
      LET totalTime == s.timeList[faceIndex] IN
      IF s.negativeList[faceIndex] # 1
      THEN IF totalTime > 0
           THEN \* normal countdown
                LET s1 == [s EXCEPT !.dig = calculateTimeDigits(totalTime),
                                    !.timeList[faceIndex] = totalTime - 1,
                                    !.shownLog[faceIndex] = Append(@, totalTime)]
                IN  checkTimeWarnings(s1, totalTime, faceIndex)
           ELSE \* time expired: enter overtime mode
                LET s1 == [s EXCEPT !.dig = <<0, 0, 0, 0>>,
                                    !.negativeList[faceIndex] = 1,
                                    !.timeList[faceIndex] = 1,
                                    !.shownLog[faceIndex] = Append(@, 0)]
                IN  timeoutTone(s1, faceIndex)
      ELSE \* overtime mode: count up
           [s EXCEPT !.dig = calculateTimeDigits(totalTime),
                     !.timeList[faceIndex] = totalTime + 1,
                     !.shownLog[faceIndex] = Append(@, totalTime)]

\* updateMoveTimer with an overtime count like the one of the Game mode
updateMoveTimerOvertime(s, faceIndex) ==
    IF s.moveTimeRemaining > 0
    THEN [s EXCEPT !.dig = calculateTimeDigits(s.moveTimeRemaining),
                   !.moveTimeRemaining = s.moveTimeRemaining - 1]
    ELSE [s EXCEPT !.dig = <<0, 0, 0, 0>>,
                   !.moveTimeRemaining = s.moveTimeRemaining + 1]

updateMoveTimer(s, faceIndex) ==
    IF s.moveTimeRemaining > 0
    THEN LET s1 == [s EXCEPT !.dig = calculateTimeDigits(s.moveTimeRemaining),
                             !.moveTimeRemaining = s.moveTimeRemaining - 1]
         IN  checkTimeWarnings(s1, s1.moveTimeRemaining + 1, s1.currentFace)
    ELSE \* move time expired
         timeoutTone([s EXCEPT !.dig = <<0, 0, 0, 0>>], s.currentFace)

\* switchToNextPlayer that lets the new player inherit the time left over
switchToNextPlayerKeepsTime(s) ==
    resetWarningFlags(s, s.currentFace)

switchToNextPlayer(s) ==
    LET s1 == [s EXCEPT !.moveTimeRemaining = DigitsToSeconds(s.moveTimerDig),
                        !.toneLog = [i \in Players |-> <<>>]]
    IN  resetWarningFlags(s1, s1.currentFace)

initializeTimers(s) ==
    LET totalTime == DigitsToSeconds(s.dig)
        s0 == [s EXCEPT !.shownLog = [i \in Players |-> <<>>],
                        !.toneLog = [i \in Players |-> <<>>]]
    IN  IF s.currentTimerMode = "GAME_TIMER"
        THEN [s0 EXCEPT !.timeList = [i \in Players |-> totalTime],
                        !.negativeList = [i \in Players |-> 0]]
        ELSE [s0 EXCEPT !.moveTimerDig = s.dig,
                        !.moveTimeRemaining = totalTime]

(***************************************************************************)
(* Navigation and state management                                         *)
(***************************************************************************)
\* resetToModeSelect that goes back to the first screen instead
resetToSoundSelect(s) ==
    [s EXCEPT !.currentScreen = "SCREEN_SOUND_SELECT",
              !.statusFlg = FALSE,
              !.startFlg = FALSE]

resetToModeSelect(s) ==
    LET s1 == resetWarningFlags(
                  [s EXCEPT !.currentScreen = "SCREEN_MODE_SELECT",
                            !.modeSelectPosition = 0,
                            !.statusFlg = FALSE,
                            !.startFlg = FALSE], -1)
        s2 == [s1 EXCEPT !.needsFullRedraw = TRUE, !.needsBatteryUpdate = TRUE]
    IN  IF ~s2.isDisplayOn THEN turnOnDisplay(s2) ELSE s2

resetToSetupKeepsShown(s) ==
    LET s1 == resetWarningFlags(
                  [s EXCEPT !.currentScreen = "SCREEN_SETUP",
                            !.updatePosition = 0,
                            !.statusFlg = FALSE,
                            !.startFlg = FALSE], -1)
        s2 == [s1 EXCEPT !.needsFullRedraw = TRUE, !.needsBatteryUpdate = TRUE]
    IN  IF ~s2.isDisplayOn THEN turnOnDisplay(s2) ELSE s2

resetToSetupClearsOvertime(s) ==
    LET s1 == resetWarningFlags(
                  [s EXCEPT !.currentScreen = "SCREEN_SETUP",
                            !.updatePosition = 0,
                            !.statusFlg = FALSE,
                            !.startFlg = FALSE,
                            !.negativeList = [i \in Players |-> 0]], -1)
        s2 == [s1 EXCEPT !.needsFullRedraw = TRUE, !.needsBatteryUpdate = TRUE]
        s3 == IF ~s2.isDisplayOn THEN turnOnDisplay(s2) ELSE s2
    IN  [s3 EXCEPT !.dig = s3.initDig]

resetToSetup(s) ==
    LET s1 == resetWarningFlags(
                  [s EXCEPT !.currentScreen = "SCREEN_SETUP",
                            !.updatePosition = 0,
                            !.statusFlg = FALSE,
                            !.startFlg = FALSE], -1)
        s2 == [s1 EXCEPT !.needsFullRedraw = TRUE, !.needsBatteryUpdate = TRUE]
        s3 == IF ~s2.isDisplayOn THEN turnOnDisplay(s2) ELSE s2
    IN  \* restore original setup values
        [s3 EXCEPT !.dig = s3.initDig]

incrementDigitPastMax(s) ==
    LET d == s.dig
        k == s.updatePosition + 1
        d1 == [d EXCEPT ![k] = IF d[k] <= MAX_DIGIT_TENS_MINUTES THEN d[k] + 1 ELSE 0]
    IN  [s EXCEPT !.dig = d1, !.initDig = d1]

incrementDigit(s) ==
    LET d == s.dig
        d1 == IF s.updatePosition = 0
              THEN [d EXCEPT ![1] = IF d[1] < MAX_DIGIT_TENS_MINUTES THEN d[1] + 1 ELSE 0]
              ELSE IF s.updatePosition = 1
              THEN [d EXCEPT ![2] = IF d[2] < MAX_DIGIT_ONES THEN d[2] + 1 ELSE 0]
              ELSE IF s.updatePosition = 2
              THEN [d EXCEPT ![3] = IF d[3] < MAX_DIGIT_TENS_SECONDS THEN d[3] + 1 ELSE 0]
              ELSE IF s.updatePosition = 3
              THEN [d EXCEPT ![4] = IF d[4] < MAX_DIGIT_ONES THEN d[4] + 1 ELSE 0]
              ELSE d
    IN  \* save current settings
        [s EXCEPT !.dig = d1, !.initDig = d1]

nextDigitPosition(s) ==
    [s EXCEPT !.updatePosition = (s.updatePosition + 1) % 4]

(***************************************************************************)
(* Input handling.  An input in is what M5.update() latched for this pass: *)
(*   a, b, c   BtnA/BtnB/BtnC.wasPressed()                                 *)
(*   cHeld     BtnC.isPressed()                                            *)
(*   touch     zone of touch 0: "none" (getCount() = 0), "left", "center", *)
(*             "right" (the three button zones) or "other"                 *)
(*   tWas, tIs touch.wasPressed(), touch.isPressed()                       *)
(*   ms        milliseconds since the previous pass read the inputs        *)
(* The press times are kept as 0 (unset) or 1 (set) together with the time *)
(* elapsed since they were set, which is all the code uses of them; the    *)
(* elapsed time is followed up to LONG_PRESS_DURATION.                     *)
(***************************************************************************)
\* the screen actions shared by the Sound-select and Mode-select cases
selectScreens(s, leftPressed, centerPressed, rightPressed) ==
    IF s.currentScreen = "SCREEN_SOUND_SELECT"
    THEN LET s1 == IF leftPressed \/ rightPressed
                   THEN [s EXCEPT !.soundSelectPosition =
                                      IF s.soundSelectPosition = 0 THEN 1 ELSE 0]
                   ELSE s
         IN  IF centerPressed
             THEN [s1 EXCEPT !.soundEnabled = (s1.soundSelectPosition = 0),
                             !.currentScreen = "SCREEN_MODE_SELECT",
                             !.modeSelectPosition = 0,
                             !.needsFullRedraw = TRUE,
                             !.needsBatteryUpdate = TRUE]
             ELSE s1
    ELSE \* SCREEN_MODE_SELECT
         LET s1 == IF leftPressed \/ rightPressed
                   THEN [s EXCEPT !.modeSelectPosition =
                                      IF s.modeSelectPosition = 0 THEN 1 ELSE 0]
                   ELSE s
         IN  IF centerPressed
             THEN [s1 EXCEPT !.currentTimerMode =
                                 IF s1.modeSelectPosition = 0 THEN "GAME_TIMER"
                                                              ELSE "MOVE_TIMER",
                             !.currentScreen = "SCREEN_SETUP",
                             !.updatePosition = 0,
                             !.needsFullRedraw = TRUE,
                             !.needsBatteryUpdate = TRUE]
             ELSE s1

\* "Start timer operation" of the Setup case
startTimer(s) ==
    LET s1 == resetWarningFlags(initializeTimers(s), -1)
        s2 == [s1 EXCEPT !.statusFlg = TRUE,
                         !.startFlg = TRUE,
                         !.currentScreen = "SCREEN_TIMER",
                         !.needsFullRedraw = TRUE,
                         !.needsBatteryUpdate = TRUE]
        orientation == detectOrientation(s2)
    IN  [s2 EXCEPT !.currentFace = IF orientation >= 0 THEN orientation ELSE 4]

\* the Timer case without the statusFlg guard on Left: Left resets at any time
timerScreenLeftAlways(s, leftPressed, centerPressed) ==
    IF leftPressed THEN resetToSetup(s) ELSE s

\* the Timer case: Left only while stopped, Center resumes or pauses
\* the Timer case with a resume that keeps the face shown before the pause
timerScreenResumeKeepsFace(s, leftPressed, centerPressed) ==
    LET s1 == IF leftPressed /\ ~s.statusFlg THEN resetToSetup(s) ELSE s
    IN  IF centerPressed
        THEN IF ~s1.statusFlg
             THEN [resetWarningFlags(s1, -1)
                      EXCEPT !.statusFlg = TRUE,
                             !.needsFullRedraw = TRUE,
                             !.needsBatteryUpdate = TRUE]
             ELSE LET s2 == [s1 EXCEPT !.statusFlg = FALSE,
                                       !.needsFullRedraw = TRUE,
                                       !.needsBatteryUpdate = TRUE]
                  IN  IF s2.isDisplayOn THEN drawTimerDisplayFull(s2) ELSE s2
        ELSE s1

timerScreen(s, leftPressed, centerPressed) ==
    LET s1 == IF leftPressed /\ ~s.statusFlg THEN resetToSetup(s) ELSE s
    IN  IF centerPressed
        THEN IF ~s1.statusFlg
             THEN \* resume timer
                  LET s2 == [resetWarningFlags(s1, -1)
                                EXCEPT !.statusFlg = TRUE,
                                       !.needsFullRedraw = TRUE,
                                       !.needsBatteryUpdate = TRUE]
                      orientation == detectOrientation(s2)
                  IN  [s2 EXCEPT !.currentFace =
                                     IF orientation >= 0 THEN orientation ELSE 4]
             ELSE \* pause timer
                  LET s2 == [s1 EXCEPT !.statusFlg = FALSE,
                                       !.needsFullRedraw = TRUE,
                                       !.needsBatteryUpdate = TRUE]
                  IN  IF s2.isDisplayOn THEN drawTimerDisplayFull(s2) ELSE s2
        ELSE s1

\* a press age that is long as soon as the press is seen a second time
elapsedMsAnyHold(heldMs, ms) == LONG_PRESS_DURATION

\* millis() - <press time>, given its value at the previous pass
elapsedMs(heldMs, ms) ==
    IF heldMs + ms >= LONG_PRESS_DURATION THEN LONG_PRESS_DURATION ELSE heldMs + ms

handlePhysicalButtons(s, in) ==
    LET leftPressed == in.a
        centerPressed == in.b
        rightPressed == in.c
        \* long press detection for the right button
        heldMs == elapsedMs(s.btnCHeldMs, in.ms)
        startHold == in.cHeld /\ s.btnCPressTime = 0
        longFires == ~startHold /\ in.cHeld /\ ~s.btnCLongPressed
                         /\ heldMs >= LONG_PRESS_DURATION
        s1 == IF startHold
              THEN [s EXCEPT !.btnCPressTime = 1, !.btnCLongPressed = FALSE,
                             !.btnCHeldMs = 0, !.holdFrom = s.currentScreen]
              ELSE IF longFires
              THEN [s EXCEPT !.btnCLongPressed = TRUE, !.btnCHeldMs = heldMs]
              ELSE IF ~in.cHeld
              THEN [s EXCEPT !.btnCPressTime = 0, !.btnCLongPressed = FALSE,
                             !.btnCHeldMs = 0,
                             !.holdFrom = IF s.touchRightCurrentlyPressed
                                          THEN @ ELSE "none"]
              ELSE [s EXCEPT !.btnCHeldMs = heldMs]
    IN  IF longFires /\ s1.currentScreen = "SCREEN_SETUP"
        THEN [resetToModeSelect(s1) EXCEPT !.btnCPressTime = 0, !.btnCHeldMs = 0]
        ELSE IF s1.currentScreen \in {"SCREEN_SOUND_SELECT", "SCREEN_MODE_SELECT"}
        THEN selectScreens(s1, leftPressed, centerPressed, rightPressed)
        ELSE IF s1.currentScreen = "SCREEN_SETUP"
        THEN LET s2 == IF leftPressed THEN incrementDigit(s1) ELSE s1
                 s3 == IF centerPressed THEN startTimer(s2) ELSE s2
             IN  IF rightPressed /\ ~s3.btnCLongPressed
                 THEN nextDigitPosition(s3) ELSE s3
        ELSE timerScreen(s1, leftPressed, centerPressed)

handleTouchButtons(s, in) ==
    LET touching == in.touch # "none"
        rightButtonTouched == in.touch = "right"
        tracking == touching /\ rightButtonTouched /\ in.tIs
        heldMs == elapsedMs(s.touchRightHeldMs, in.ms)
        rightLongPressed ==
            tracking /\ s.touchRightCurrentlyPressed /\ ~s.touchRightLongPressed
              /\ s.currentScreen = "SCREEN_SETUP" /\ heldMs >= LONG_PRESS_DURATION
        s1 == IF tracking
              THEN IF ~s.touchRightCurrentlyPressed
                   THEN [s EXCEPT !.touchRightPressTime = 1,
                                  !.touchRightCurrentlyPressed = TRUE,
                                  !.touchRightLongPressed = FALSE,
                                  !.touchRightHeldMs = 0,
                                  !.holdFrom = s.currentScreen]
                   ELSE IF rightLongPressed
                   THEN [s EXCEPT !.touchRightLongPressed = TRUE,
                                  !.touchRightHeldMs = heldMs]
                   ELSE [s EXCEPT !.touchRightHeldMs = heldMs]
              ELSE \* no contact, or contact outside the right zone, or released
                   [s EXCEPT !.touchRightCurrentlyPressed = FALSE,
                             !.touchRightLongPressed = FALSE,
                             !.touchRightPressTime = 0,
                             !.touchRightHeldMs = 0,
                             !.holdFrom = IF s.btnCPressTime = 1 THEN @ ELSE "none"]
        pressed == touching /\ in.tWas /\ ~rightLongPressed
        leftPressed == pressed /\ in.touch = "left"
        centerPressed == pressed /\ in.touch = "center"
        rightPressed == pressed /\ in.touch = "right"
    IN  IF s1.currentScreen \in {"SCREEN_SOUND_SELECT", "SCREEN_MODE_SELECT"}
        THEN selectScreens(s1, leftPressed, centerPressed, rightPressed)
        ELSE IF s1.currentScreen = "SCREEN_SETUP"
        THEN IF rightLongPressed THEN resetToModeSelect(s1)
             ELSE IF leftPressed THEN incrementDigit(s1)
             ELSE IF centerPressed THEN startTimer(s1)
             ELSE IF rightPressed THEN nextDigitPosition(s1)
             ELSE s1
        ELSE timerScreen(s1, leftPressed, centerPressed)

\* handleButtons with a wake that asks for no redraw
handleButtonsWakeOnly(s, in) ==
    LET anyButtonPressed ==
            \/ in.a \/ in.b \/ in.c
            \/ (s.deviceType = "DEVICE_CORES3" /\ in.touch # "none" /\ in.tWas)
    IN  IF ~s.isDisplayOn /\ anyButtonPressed
        THEN turnOnDisplay(s)
        ELSE LET s1 == handlePhysicalButtons(s, in)
             IN  IF s1.deviceType = "DEVICE_CORES3"
                 THEN handleTouchButtons(s1, in) ELSE s1

handleButtonsWhileDark(s, in) ==
    LET s1 == handlePhysicalButtons(s, in)
    IN  IF s1.deviceType = "DEVICE_CORES3"
        THEN handleTouchButtons(s1, in) ELSE s1

handleButtonsWakeAndAct(s, in) ==
    LET anyButtonPressed ==
            \/ in.a \/ in.b \/ in.c
            \/ (s.deviceType = "DEVICE_CORES3" /\ in.touch # "none" /\ in.tWas)
        s0 == IF ~s.isDisplayOn /\ anyButtonPressed
              THEN [turnOnDisplay(s) EXCEPT !.needsFullRedraw = TRUE,
                                            !.needsBatteryUpdate = TRUE]
              ELSE s
        s1 == handlePhysicalButtons(s0, in)
    IN  IF s1.deviceType = "DEVICE_CORES3"
        THEN handleTouchButtons(s1, in) ELSE s1

handleButtons(s, in) ==
    LET anyButtonPressed ==
            \/ in.a \/ in.b \/ in.c
            \/ (s.deviceType = "DEVICE_CORES3" /\ in.touch # "none" /\ in.tWas)
    IN  IF ~s.isDisplayOn /\ anyButtonPressed
        THEN \* wake display; the input is dropped
             [turnOnDisplay(s) EXCEPT !.needsFullRedraw = TRUE,
                                      !.needsBatteryUpdate = TRUE]
        ELSE LET s1 == handlePhysicalButtons(s, in)
             IN  IF s1.deviceType = "DEVICE_CORES3"
                 THEN handleTouchButtons(s1, in) ELSE s1

(***************************************************************************)
(* loop()                                                                  *)
(***************************************************************************)
NoInput ==
    [a |-> FALSE, b |-> FALSE, c |-> FALSE, cHeld |-> FALSE,
     touch |-> "none", tWas |-> FALSE, tIs |-> FALSE, ms |-> 0]

NoStep ==
    [kind |-> "none", in |-> NoInput, wasOn |-> TRUE, screen |-> "none",
     unread |-> NoSample, fired |-> FALSE,
     orientation |-> -1, prevFace |-> -1, prevMove |-> -1]

\* a redraw policy whose partial update repaints the battery and leaves the
\* request pending
redrawKeepsBatteryFlag(s, full, partial) ==
    IF s.needsFullRedraw
    THEN [full EXCEPT !.needsFullRedraw = FALSE, !.needsBatteryUpdate = FALSE]
    ELSE IF partial.needsBatteryUpdate
         THEN drawBatteryInfo(partial)
         ELSE partial

\* the redraw policy shared by the timer block and the blink block
redraw(s, full, partial) ==
    IF s.needsFullRedraw
    THEN [full EXCEPT !.needsFullRedraw = FALSE, !.needsBatteryUpdate = FALSE]
    ELSE IF partial.needsBatteryUpdate
         THEN [drawBatteryInfo(partial) EXCEPT !.needsBatteryUpdate = FALSE]
         ELSE partial

\* the body of "if (currentScreen == SCREEN_TIMER && statusFlg && <interval elapsed>)"
\* a timer block that keeps counting for the active face in no clear orientation
timerBlockTicksAnyway(s) ==
    IF s.currentTimerMode = "GAME_TIMER"
    THEN updateGameTimer(s, s.currentFace)
    ELSE updateMoveTimer(s, s.currentFace)

timerBlock(s) ==
    LET orientation == detectOrientation(s)
        \* handle device orientation changes
        s1 == IF orientation >= 0 /\ orientation # s.currentFace
              THEN LET t1 == [s EXCEPT !.currentFace = orientation,
                                       !.needsFullRedraw = TRUE,
                                       !.needsBatteryUpdate = TRUE]
                       t2 == IF t1.soundEnabled
                             THEN playBlocking(t1, TONE_FREQ_HIGH, TONE_DURATION_SHORT)
                             ELSE t1
                   IN  IF t2.currentTimerMode = "MOVE_TIMER"
                       THEN switchToNextPlayer(t2) ELSE t2
              ELSE s
    IN  IF orientation >= 0
        THEN \* device is in a valid orientation
             LET s2 == IF s1.pauseFlg /\ ~s1.isDisplayOn
                       THEN [turnOnDisplay(s1) EXCEPT !.needsFullRedraw = TRUE,
                                                      !.needsBatteryUpdate = TRUE]
                       ELSE s1
                 s3 == IF s2.currentTimerMode = "GAME_TIMER"
                       THEN updateGameTimer(s2, orientation)
                       ELSE updateMoveTimer(s2, orientation)
                 s4 == IF s3.isDisplayOn /\ ~s3.isPlayingWarningSound
                       THEN redraw(s3, drawTimerDisplayFull(s3), updateTimerOnly(s3))
                       ELSE s3
             IN  [s4 EXCEPT !.pauseFlg = FALSE]
        ELSE IF s1.accel[3] <= ACCEL_THRESHOLD_BACK /\ ~s1.pauseFlg
        THEN \* device is face-down (pause mode)
             LET s2 == IF s1.soundEnabled
                       THEN playBlocking(s1, TONE_FREQ_MID, TONE_DURATION_WARNING)
                       ELSE s1
                 s3 == [s2 EXCEPT !.pauseFlg = TRUE]
             IN  IF s3.isDisplayOn THEN turnOffDisplay(s3) ELSE s3
        ELSE s1

\* the body of "if (currentScreen != SCREEN_TIMER) if (<blink interval elapsed>)"
blinkBlock(s) ==
    LET s1 == [s EXCEPT !.blinkState = ~s.blinkState]
    IN  IF s1.isDisplayOn
        THEN IF s1.currentScreen = "SCREEN_SOUND_SELECT"
             THEN redraw(s1, drawSoundSelectScreenFull(s1), updateSoundSelectOnly(s1))
             ELSE IF s1.currentScreen = "SCREEN_MODE_SELECT"
             THEN redraw(s1, drawModeSelectScreenFull(s1), updateModeSelectOnly(s1))
             ELSE redraw(s1, drawSetupModeFull(s1), updateSetupTimerOnly(s1))
        ELSE s1

\* loop(), first part: IMU update, only during timer operation.  sample is
\* NoSample when the IMU interval has not elapsed or the IMU has nothing new.
imuPhase(sample) ==
    /\ pc = "imu"
    /\ Commit(IF currentScreen = "SCREEN_TIMER" THEN updateIMU(State, sample) ELSE State)
    /\ lastStep' = [NoStep EXCEPT !.kind = "imu",
                                  !.unread = IF currentScreen = "SCREEN_TIMER"
                                             THEN NoSample ELSE sample]
    /\ pc' = "buttons"

\* loop(), second part: process user input
buttonsPhase(in) ==
    /\ pc = "buttons"
    /\ Commit(handleButtons(State, in))
    /\ lastStep' = [NoStep EXCEPT !.kind = "buttons", !.in = in, !.wasOn = isDisplayOn,
                                  !.screen = currentScreen,
                                  !.unread = lastStep.unread,
                                  !.prevFace = currentFace,
                                  !.prevMove = moveTimeRemaining]
    /\ pc' = "battery"

\* loop(), third part: schedule battery display updates
batteryPhase(due) ==
    /\ pc = "battery"
    /\ Commit(IF due THEN [State EXCEPT !.needsBatteryUpdate = TRUE] ELSE State)
    /\ lastStep' = [NoStep EXCEPT !.kind = "battery"]
    /\ pc' = "timer"

\* loop(), fourth part: timer operation processing
timerPhase(due) ==
    /\ pc = "timer"
    /\ LET fires == currentScreen = "SCREEN_TIMER" /\ statusFlg /\ due
       IN  /\ Commit(IF fires THEN timerBlock(State) ELSE State)
           /\ lastStep' = IF fires
                          THEN [NoStep EXCEPT !.kind = "timer", !.fired = TRUE,
                                              !.orientation = detectOrientation(State),
                                              !.prevFace = currentFace,
                                              !.prevMove = moveTimeRemaining]
                          ELSE [NoStep EXCEPT !.kind = "timer"]
    /\ pc' = "blink"

\* loop(), fifth part: blinking animation of the configuration screens
blinkPhaseOnEveryScreen(due) ==
    /\ pc = "blink"
    /\ Commit(IF ~due THEN State
              ELSE IF currentScreen # "SCREEN_TIMER" THEN blinkBlock(State)
              ELSE [State EXCEPT !.blinkState = ~@])
    /\ lastStep' = [NoStep EXCEPT !.kind = "blink"]
    /\ pc' = "imu"

blinkPhase(due) ==
    /\ pc = "blink"
    /\ Commit(IF currentScreen # "SCREEN_TIMER" /\ due THEN blinkBlock(State) ELSE State)
    /\ lastStep' = [NoStep EXCEPT !.kind = "blink"]
    /\ pc' = "imu"

(***************************************************************************)
(* The five parts of loop() with the intervals left to the environment:    *)
(* whether an interval has elapsed is an input, and the millisecond        *)
(* counter is not followed.                                                *)
(***************************************************************************)
PollIMU(sample) == imuPhase(sample) /\ UNCHANGED <<clockVars, twin>>
HandleButtons(in) == buttonsPhase(in) /\ UNCHANGED <<clockVars, twin>>
ScheduleBattery(due) == batteryPhase(due) /\ UNCHANGED <<clockVars, twin>>
LoopTimer(due) == timerPhase(due) /\ UNCHANGED <<clockVars, twin>>
LoopBlink(due) == blinkPhase(due) /\ UNCHANGED <<clockVars, twin>>

(***************************************************************************)
(* Environment: the inputs the model draws                                 *)
(***************************************************************************)
PressA == [NoInput EXCEPT !.a = TRUE]
PressB == [NoInput EXCEPT !.b = TRUE]
PressC == [NoInput EXCEPT !.c = TRUE, !.cHeld = TRUE]
HoldC == [NoInput EXCEPT !.cHeld = TRUE, !.ms = LONG_PRESS_DURATION \div 2]
HoldCLong == [NoInput EXCEPT !.cHeld = TRUE, !.ms = LONG_PRESS_DURATION]
PressAB == [NoInput EXCEPT !.a = TRUE, !.b = TRUE]
HoldCPressB == [HoldC EXCEPT !.b = TRUE]
Touch(zone) == [NoInput EXCEPT !.touch = zone, !.tWas = TRUE, !.tIs = TRUE]
TouchHoldRight ==
    [NoInput EXCEPT !.touch = "right", !.tIs = TRUE, !.ms = LONG_PRESS_DURATION \div 2]
TouchHoldRightLong ==
    [NoInput EXCEPT !.touch = "right", !.tIs = TRUE, !.ms = LONG_PRESS_DURATION]

\* IMU readings: P1 edge (y), P2 edge (x), P5 flat (z up), no clear face, face-down
SampleP1 == <<0, 9, 0>>
SampleP2 == <<9, 0, 0>>
SampleP5 == <<0, 0, 9>>
SampleNone == <<0, 0, 0>>
SampleDown == <<0, 0, -9>>
\* on the edge of player 1 and pulled face-down at once
SampleP1Down == <<0, 9, -9>>

\* a Left press on the Setup screen is drawn only while it dials at most MaxSeconds
DialWithinBounds(in) ==
    (currentScreen = "SCREEN_SETUP" /\ (in.a \/ in.touch = "left"))
        => DigitsToSeconds(incrementDigit(State).dig) <= MaxSeconds

\* a tick is drawn only while the counters it may advance are within their bounds
TickWithinBounds ==
    \A i \in Players :
        /\ negativeList[i] = 1 => timeList[i] <= MaxOvertime
        /\ Len(SelectSeq(toneLog[i], LAMBDA v : v = 0)) < MaxTimeouts

\* the globals' initializers and setup(), all but the IMU readings
BootGlobals ==
    /\ pc = "imu"
    /\ deviceType \in DeviceType
    /\ soundEnabled = TRUE
    /\ soundSelectPosition = 0
    /\ currentTimerMode = "GAME_TIMER"
    /\ currentScreen = "SCREEN_SOUND_SELECT"
    /\ modeSelectPosition = 0
    /\ timeList = [i \in Players |-> 0]
    /\ negativeList = [i \in Players |-> 0]
    /\ moveTimeRemaining = 0
    /\ currentFace = 4
    /\ statusFlg = FALSE
    /\ startFlg = FALSE
    /\ pauseFlg = FALSE
    /\ updatePosition = 0
    /\ dig = <<0, 0, 0, 0>>
    /\ initDig = <<0, 0, 0, 0>>
    /\ moveTimerDig = <<0, 0, 0, 0>>
    /\ blinkState = TRUE
    /\ needsFullRedraw = TRUE
    /\ needsBatteryUpdate = TRUE
    /\ isDisplayOn = TRUE
    /\ isPlayingWarningSound = FALSE
    /\ warningFlags = [w \in WarningTimes |-> [i \in Players |-> FALSE]]
    /\ btnCPressTime = 0
    /\ btnCLongPressed = FALSE
    /\ touchRightPressTime = 0
    /\ btnCHeldMs = 0
    /\ touchRightHeldMs = 0
    /\ holdFrom = "none"
    /\ touchRightLongPressed = FALSE
    /\ touchRightCurrentlyPressed = FALSE
    /\ tones = <<>>
    /\ draws = <<>>
    /\ shownLog = [i \in Players |-> <<>>]
    /\ toneLog = [i \in Players |-> <<>>]
    /\ lastStep = NoStep

\* the millisecond counter and the interval bookkeeping at power-up
ClockBoot ==
    /\ now = <<0, 0>>
    /\ currentTime = <<0, 0>>
    /\ lastTimerUpdate = <<0, 0>>
    /\ lastBlinkUpdate = <<0, 0>>
    /\ uptime = 0
    /\ sinceTimerFire = TIMER_INTERVAL
    /\ sinceBlinkFire = BLINK_INTERVAL
    /\ sincePress = TIMER_INTERVAL

\* no second run is followed
NoTwin == <<>>

Boot == BootGlobals /\ ClockBoot /\ twin = NoTwin

Init ==
    /\ Boot
    /\ accel = <<0, 0, 0>>
    /\ threshold = ACCEL_THRESHOLD

(***************************************************************************)
(* Spec: the timer in play.  The players use Left, Center and Right        *)
(* presses (buttons, and the left and center touch zones on a CoreS3) and  *)
(* turn the device between P1, P5, an unclear orientation and face-down.   *)
(* They press Right only on the Setup screen, to bring the cursor to the   *)
(* seconds digit, and start the timer from there.                          *)
(***************************************************************************)
PlayInputs ==
    {NoInput, PressA, PressB, PressC}
        \cup (IF deviceType = "DEVICE_CORES3" THEN {Touch("left"), Touch("center")} ELSE {})

PlaySamples == {NoSample, SampleP1, SampleP5, SampleNone, SampleDown, SampleP1Down}

\* readings offered while the timer screen is not shown: loop() does not read
\* the IMU there, so they change nothing in the program
SetupSamples == {NoSample, SampleP1}

Offered(sample, unreadSamples) ==
    currentScreen # "SCREEN_TIMER" => sample \in unreadSamples

PlayProtocol(in) ==
    /\ in.c => currentScreen = "SCREEN_SETUP" /\ updatePosition < 3
    /\ (currentScreen = "SCREEN_SETUP" /\ (in.b \/ in.touch = "center")) => updatePosition = 3

StepIMU == \E sample \in PlaySamples \cup SetupSamples : Offered(sample, SetupSamples) /\ PollIMU(sample)

StepButtons ==
    \E in \in PlayInputs : PlayProtocol(in) /\ DialWithinBounds(in) /\ HandleButtons(in)

StepBattery == ScheduleBattery(FALSE)

StepTimer == \E due \in BOOLEAN : (due => TickWithinBounds) /\ LoopTimer(due)

StepBlink == LoopBlink(FALSE)

Next == StepIMU \/ StepButtons \/ StepBattery \/ StepTimer \/ StepBlink

Spec == Init /\ [][Next]_vars

(***************************************************************************)
(* Properties of the timer in play                                         *)
(***************************************************************************)
\* the k-th value a slot committed with n displays: n, n-1, ..., 1, 0, 1, 2, ...
ExpectedShown(n, k) == IF k <= n THEN n - k + 1 ELSE k - n - 1

GameRunning == currentScreen = "SCREEN_TIMER" /\ currentTimerMode = "GAME_TIMER"

\* C1: in Game-Timer mode a slot committed with n seconds displays, over its
\* successive ticks, n, n-1, ..., 1, then 00:00, then the overtime values
\* 00:01, 00:02, ...: every value is displayed once and none is skipped.
C1_GameSequence ==
    GameRunning =>
        \A f \in Players :
            \A k \in 1..Len(shownLog[f]) :
                shownLog[f][k] = ExpectedShown(DigitsToSeconds(initDig), k)

\* a slot committed with 2 seconds has counted down, expired and counted up
C1_Witness ==
    /\ GameRunning
    /\ DigitsToSeconds(initDig) = 2
    /\ shownLog[0] = <<2, 1, 0, 1, 2>>

TickFired == lastStep.kind = "timer" /\ lastStep.fired

TimerDrawCalls == {"drawTimerDisplayFull", "updateTimerOnly"}

\* the tick just taken displayed 00:00 for the slot of face f
ExpiryTickOn(f) ==
    /\ GameRunning /\ TickFired /\ lastStep.orientation = f
    /\ Len(shownLog[f]) = DigitsToSeconds(initDig) + 1

\* C2: on the tick that displays 00:00 for a Game-Timer slot the slot's
\* overtime flag is still false and 00:00 is drawn in the normal (white)
\* colour; the flag becomes true only on the following tick.
C2_ZeroInWhite ==
    \A f \in Players :
        ExpiryTickOn(f) =>
            /\ negativeList[f] = 0
            /\ \A k \in 1..Len(draws) :
                   draws[k].fn \in TimerDrawCalls => draws[k].color = "COLOR_WHITE"

\* the expiry tick of P5's slot has just drawn 00:00
C2_Witness ==
    /\ ExpiryTickOn(4)
    /\ dig = <<0, 0, 0, 0>>
    /\ \E k \in 1..Len(draws) : draws[k].fn \in TimerDrawCalls

\* slot f takes one step: remaining minus 1, the expiry transition, or overtime plus 1
SlotAdvances(f) ==
    \/ /\ negativeList[f] = 0 /\ timeList[f] > 0
       /\ negativeList'[f] = 0 /\ timeList'[f] = timeList[f] - 1
    \/ /\ negativeList[f] = 0 /\ timeList[f] = 0
       /\ negativeList'[f] = 1 /\ timeList'[f] = 1
    \/ /\ negativeList[f] = 1
       /\ negativeList'[f] = 1 /\ timeList'[f] = timeList[f] + 1

\* C3: on every timer tick in Game-Timer mode with a valid classified face f
\* exactly slot f changes, and the remaining time and overtime flag of the
\* four other slots are unchanged.
C3_OnlyActiveSlot ==
    [][(GameRunning /\ TickFired')
          => \A f \in Players :
                 lastStep'.orientation = f =>
                     /\ SlotAdvances(f)
                     /\ \A i \in Players \ {f} :
                            /\ timeList'[i] = timeList[i]
                            /\ negativeList'[i] = negativeList[i]]_vars

\* a tick has just switched from P5 to P1 with both slots partly run down
C3_Witness ==
    /\ GameRunning /\ TickFired
    /\ lastStep.orientation = 0 /\ lastStep.prevFace = 4
    /\ DigitsToSeconds(initDig) = 2
    /\ timeList[0] = 1 /\ timeList[4] = 0 /\ negativeList[4] = 0

\* a Left press (button A or the left touch zone) has just been handled
LeftHandled == lastStep.kind = "buttons" /\ lastStep.in \in {PressA, Touch("left")}

MoveRunning == currentScreen = "SCREEN_TIMER" /\ currentTimerMode = "MOVE_TIMER"

baseSeconds == DigitsToSeconds(moveTimerDig)

\* the tick just taken detected a change of face
SwitchTick ==
    /\ TickFired
    /\ lastStep.orientation >= 0
    /\ lastStep.orientation # lastStep.prevFace

\* C5: in Move-Timer mode, on the tick that detects a face change the
\* countdown is first reset to base and only then processed: the tick displays
\* base and leaves base - 1, whatever the old face had left.
C5_ResetThenTick ==
    (MoveRunning /\ SwitchTick /\ baseSeconds > 0) =>
        /\ dig = calculateTimeDigits(baseSeconds)
        /\ moveTimeRemaining = baseSeconds - 1
        /\ \A k \in 1..Len(draws) : draws[k].text = calculateTimeDigits(baseSeconds)

\* with base 2 and 1 second left on P5, the tick that detects P1 displays 00:02
C5_Witness ==
    /\ MoveRunning /\ SwitchTick
    /\ baseSeconds = 2
    /\ lastStep.prevFace = 4 /\ lastStep.orientation = 0 /\ lastStep.prevMove = 1
    /\ dig = <<0, 0, 0, 2>>
    /\ Len(draws) > 0

\* a Center press has just resumed the stopped timer on another face
ResumedOnNewFace ==
    /\ lastStep.kind = "buttons"
    /\ lastStep.in \in {PressB, Touch("center")}
    /\ statusFlg
    /\ lastStep.prevFace # currentFace

\* C6: in Move-Timer mode every change of the active face while on the Timer
\* screen resets the remaining time to base, whether a tick detects the change
\* (which then counts the first second of base) or Center re-seeds the face on
\* resume; no turn starts with time left over from the previous face.
C6_FaceChangeResets ==
    MoveRunning =>
        /\ SwitchTick =>
               moveTimeRemaining = (IF baseSeconds > 0 THEN baseSeconds - 1 ELSE 0)
        /\ ResumedOnNewFace => moveTimeRemaining = baseSeconds

\* the timer was started with base 2, stopped, turned and resumed on another face
C6_Witness ==
    /\ MoveRunning /\ ResumedOnNewFace
    /\ baseSeconds = 2
    /\ lastStep.prevFace = 4 /\ currentFace = 0

Timeouts(f) == Len(SelectSeq(toneLog[f], LAMBDA v : v = 0))

\* C8: each expiry produces exactly one timeout tone: one per slot per
\* countdown in Game-Timer mode, and one per turn in Move-Timer mode however
\* many ticks the countdown then stays at 0 on the same face.
C8_OneTimeoutTone ==
    currentScreen = "SCREEN_TIMER" => \A f \in Players : Timeouts(f) <= 1

\* a Game-Timer slot has expired with one timeout tone and gone on into overtime
C8_Witness ==
    /\ GameRunning
    /\ shownLog[4] = <<2, 1, 0, 1, 2>>
    /\ toneLog[4] = <<2, 1, 0>>

(***************************************************************************)
(* SpecWarn: the warning tones of a 10-second countdown.  From power-on    *)
(* the players keep the sound on, choose either mode, dial 00:10 (Right    *)
(* twice, Left once) and start; then they stop, resume and reset the timer *)
(* and turn the device between P1 and P5.                                  *)
(***************************************************************************)
WarnDigits == <<0, 0, 1, 0>>

WarnInputs == {NoInput, PressA, PressB, PressC}

WarnSamples == {NoSample, SampleP1, SampleP5}

WarnProtocol(in) ==
    /\ currentScreen = "SCREEN_SOUND_SELECT" => ~in.a /\ ~in.c
    /\ currentScreen = "SCREEN_MODE_SELECT" => ~in.c
    /\ currentScreen = "SCREEN_SETUP" =>
           /\ in.c => dig # WarnDigits /\ updatePosition < 2
           /\ in.a => dig # WarnDigits /\ updatePosition = 2
           /\ in.b => dig = WarnDigits
    /\ currentScreen = "SCREEN_TIMER" => ~in.c

WarnIMU == \E sample \in WarnSamples : Offered(sample, {NoSample}) /\ PollIMU(sample)

WarnButtons == \E in \in WarnInputs : WarnProtocol(in) /\ HandleButtons(in)

WarnBattery == ScheduleBattery(FALSE)

WarnTimer == \E due \in BOOLEAN : (due => TickWithinBounds) /\ LoopTimer(due)

WarnBlink == LoopBlink(FALSE)

NextWarn == WarnIMU \/ WarnButtons \/ WarnBattery \/ WarnTimer \/ WarnBlink

InitWarn == Init /\ deviceType = "DEVICE_FIRE"

SpecWarn == InitWarn /\ [][NextWarn]_vars

\* the tones of one full countdown from 10
WarnTones ==
    <<WARNING_TIME_10SEC, WARNING_TIME_5SEC, WARNING_TIME_4SEC, WARNING_TIME_3SEC,
      WARNING_TIME_2SEC, WARNING_TIME_1SEC, 0>>

\* C7: with sound enabled and base 10, a countdown fires tone events in the
\* order 10, 5, 4, 3, 2, 1, 0, each exactly once per countdown pass and per
\* player: what a player has heard in the current pass is always an initial
\* part of that list.
C7_SevenTonesOnce ==
    (currentScreen = "SCREEN_TIMER" /\ soundEnabled) =>
        \A f \in Players :
            /\ Len(toneLog[f]) <= Len(WarnTones)
            /\ toneLog[f] = SubSeq(WarnTones, 1, Len(toneLog[f]))

\* a Game-Timer slot has fired all seven tones of its countdown
C7_Witness ==
    /\ GameRunning /\ soundEnabled
    /\ initDig = WarnDigits
    /\ toneLog[0] = WarnTones

(***************************************************************************)
(* SpecCommit: committing a digit entry.  From power-on the players keep   *)
(* the sound on, choose Game Timer, dial any MM:SS the Setup screen        *)
(* accepts, digit by digit from left to right, and start from the last     *)
(* digit with the device flat (P5).  After each start the first            *)
(* MaxCommitTicks ticks are followed; a game committed with 00:00 is       *)
(* followed into overtime and may be stopped and reset to Setup, so that   *)
(* the next start finds an overtime flag to clear.                         *)
(***************************************************************************)
CommitInputs == {NoInput, PressA, PressB, PressC}

CommitSamples == {NoSample, SampleP5}

CommitProtocol(in) ==
    /\ currentScreen = "SCREEN_SOUND_SELECT" => ~in.a /\ ~in.c
    /\ currentScreen = "SCREEN_MODE_SELECT" => ~in.a /\ ~in.c
    /\ currentScreen = "SCREEN_SETUP" =>
           /\ in.c => updatePosition < 3
           /\ in.b => updatePosition = 3
    /\ currentScreen = "SCREEN_TIMER" =>
           /\ ~in.c
           /\ in.a => DigitsToSeconds(initDig) = 0

CommitTickWithinBounds ==
    /\ TickWithinBounds
    /\ \/ DigitsToSeconds(initDig) = 0
       \/ \A i \in Players : Len(shownLog[i]) < MaxCommitTicks

CommitIMU == \E sample \in CommitSamples : Offered(sample, {NoSample}) /\ PollIMU(sample)

CommitButtons == \E in \in CommitInputs : CommitProtocol(in) /\ HandleButtons(in)

CommitBattery == ScheduleBattery(FALSE)

CommitTimer == \E due \in BOOLEAN : (due => CommitTickWithinBounds) /\ LoopTimer(due)

CommitBlink == LoopBlink(FALSE)

NextCommit == CommitIMU \/ CommitButtons \/ CommitBattery \/ CommitTimer \/ CommitBlink

InitCommit == Init /\ deviceType = "DEVICE_FIRE"

SpecCommit == InitCommit /\ [][NextCommit]_vars

\* the digit entry is within the clamps of the Setup screen
WithinClamps(d) ==
    /\ d[1] \in 0..MAX_DIGIT_TENS_MINUTES
    /\ d[2] \in 0..MAX_DIGIT_ONES
    /\ d[3] \in 0..MAX_DIGIT_TENS_SECONDS
    /\ d[4] \in 0..MAX_DIGIT_ONES

\* Center has just been handled (by the step this formula is asked about)
CenterHandled == lastStep.kind = "buttons" /\ lastStep.in = PressB

\* C9: for every digit entry d1 d2 : d3 d4 within its clamps, confirming Setup
\* in Game-Timer mode sets all 5 player slots to 600*d1 + 60*d2 + 10*d3 + d4
\* seconds with every overtime flag cleared, and converting that value back to
\* display digits yields d1, d2, d3, d4 again.
C9_CommitRoundTrip ==
    [][(currentScreen = "SCREEN_SETUP" /\ currentTimerMode = "GAME_TIMER"
          /\ isDisplayOn /\ CenterHandled')
          => /\ WithinClamps(dig)
             /\ currentScreen' = "SCREEN_TIMER"
             /\ \A i \in Players :
                    /\ timeList'[i] = 600 * dig[1] + 60 * dig[2] + 10 * dig[3] + dig[4]
                    /\ negativeList'[i] = 0
                    /\ calculateTimeDigits(timeList'[i]) = dig]_vars

\* 12:34 has just been committed: every slot holds 754 seconds
C9_Witness ==
    /\ GameRunning /\ CenterHandled
    /\ initDig = <<1, 2, 3, 4>>
    /\ \A i \in Players : timeList[i] = 754 /\ negativeList[i] = 0

(***************************************************************************)
(* SpecClassify: the orientation classifier on its own.  The build's       *)
(* threshold is any of 0.1 g .. MaxAccel/10 g and the first IMU reading    *)
(* any triple of accelerations of at most MaxAccel/10 g in magnitude;      *)
(* the reading is classified, a further reading arrives, and so on.        *)
(***************************************************************************)
Accelerations == (-MaxAccel)..MaxAccel

\* later readings: the five of the timer in play, P2's edge, and two corner cases
ClassifySamples ==
    {SampleP1, SampleP2, SampleP5, SampleNone, SampleDown,
     <<MaxAccel, MaxAccel, MaxAccel>>, <<-MaxAccel, -MaxAccel, 0>>, <<1, 1, -1>>}

InitClassify ==
    /\ Boot
    /\ deviceType = "DEVICE_FIRE"
    /\ threshold \in 1..MaxAccel
    /\ accel \in Accelerations \X Accelerations \X Accelerations

\* detectOrientation() is called on the current reading
ClassifyReading ==
    /\ lastStep.kind # "classify"
    /\ Commit(State)
    /\ lastStep' = [NoStep EXCEPT !.kind = "classify",
                                  !.orientation = detectOrientation(State)]
    /\ UNCHANGED <<pc, clockVars, twin>>

\* updateIMU() stores a new reading
NextReading ==
    /\ lastStep.kind = "classify"
    /\ \E sample \in ClassifySamples : Commit(updateIMU(State, sample))
    /\ lastStep' = [NoStep EXCEPT !.kind = "imu"]
    /\ UNCHANGED <<pc, clockVars, twin>>

NextClassify == ClassifyReading \/ NextReading

SpecClassify == InitClassify /\ [][NextClassify]_vars

\* C10: for every sample (x, y, z) and threshold t the classifier returns the
\* first match in the order y >= t (Face0), x >= t (Face1), y <= -t (Face2),
\* x <= -t (Face3), z >= t (Face4), otherwise None; a sample with both y >= t
\* and x >= t is Face0, a sample with all components below t in magnitude is
\* None, and the result is a function of the current sample alone.
C10_FirstMatch ==
    lastStep.kind = "classify" =>
        LET x == accel[1]
            y == accel[2]
            z == accel[3]
            t == threshold
            face == lastStep.orientation
        IN  /\ face = 0 <=> y >= t
            /\ face = 1 <=> (x >= t /\ y < t)
            /\ face = 2 <=> (y <= -t /\ x < t)
            /\ face = 3 <=> (x <= -t /\ -t < y /\ y < t)
            /\ face = 4 <=> (z >= t /\ -t < x /\ x < t /\ -t < y /\ y < t)
            /\ face = -1 <=> (-t < x /\ x < t /\ -t < y /\ y < t /\ z < t)
            /\ face \in {-1, 0, 1, 2, 3, 4}

\* a reading on the edge between P1 and P2 (y >= t and x >= t) is classified Face0
C10_Witness ==
    /\ lastStep.kind = "classify"
    /\ accel[1] >= threshold /\ accel[2] >= threshold
    /\ lastStep.orientation = 0

(***************************************************************************)
(* SpecNav: navigation between the screens.  From power-on the players     *)
(* use every button, alone, Left with Center, and Center while Right is    *)
(* held, and on a CoreS3 every touch zone; Right may be held on for half   *)
(* the long-press duration or for all of it at a time.  A button and a     *)
(* touch are never reported in the same pass.  The device is held in no    *)
(* clear orientation or lies face-down, so that no countdown advances.     *)
(***************************************************************************)
NavInputs ==
    {NoInput, PressA, PressB, PressC, PressAB, HoldC, HoldCLong, HoldCPressB}
        \cup (IF deviceType = "DEVICE_CORES3"
              THEN {Touch("left"), Touch("center"), Touch("right"), Touch("other"),
                    TouchHoldRight, TouchHoldRightLong}
              ELSE {})

NavSamples == {NoSample, SampleNone, SampleDown}

\* a hold is continued only where one is in progress
NavProtocol(in) ==
    /\ (in.cHeld /\ ~in.c) => (holdFrom # "none" /\ ~touchRightCurrentlyPressed)
    /\ (in.touch = "right" /\ ~in.tWas) => touchRightCurrentlyPressed
    /\ in.touch # "none" => btnCPressTime = 0

NavIMU == \E sample \in NavSamples : Offered(sample, {NoSample}) /\ PollIMU(sample)

NavButtons ==
    \E in \in NavInputs : NavProtocol(in) /\ DialWithinBounds(in) /\ HandleButtons(in)

NavBattery == ScheduleBattery(FALSE)

NavTimer == \E due \in BOOLEAN : (due => TickWithinBounds) /\ LoopTimer(due)

NavBlink == LoopBlink(FALSE)

NextNav == NavIMU \/ NavButtons \/ NavBattery \/ NavTimer \/ NavBlink

SpecNav == Init /\ [][NextNav]_vars

(***************************************************************************)
(* Properties of the navigation                                            *)
(***************************************************************************)
\* what an input amounts to: Left, Center, or Right being held
LeftIn(in) == in.a \/ (in.touch = "left" /\ in.tWas)

CenterIn(in) == in.b \/ (in.touch = "center" /\ in.tWas)

RightHeldIn(in) == in.cHeld \/ (in.touch = "right" /\ in.tIs)

Edge(from, to) == currentScreen = from /\ currentScreen' = to

\* C11: currentScreen changes only along these edges: SoundSelect to
\* ModeSelect (Center), ModeSelect to Setup (Center), Setup to Timer (Center),
\* Setup to ModeSelect (Right held), Timer to Setup (Left while stopped);
\* SoundSelect is never re-entered and the Timer screen is never left while
\* running.
C11_ScreenEdges ==
    [][currentScreen' # currentScreen =>
          /\ lastStep'.kind = "buttons"
          /\ \/ Edge("SCREEN_SOUND_SELECT", "SCREEN_MODE_SELECT") /\ CenterIn(lastStep'.in)
             \/ Edge("SCREEN_MODE_SELECT", "SCREEN_SETUP") /\ CenterIn(lastStep'.in)
             \/ Edge("SCREEN_SETUP", "SCREEN_TIMER") /\ CenterIn(lastStep'.in)
             \/ Edge("SCREEN_SETUP", "SCREEN_MODE_SELECT") /\ RightHeldIn(lastStep'.in)
             \/ Edge("SCREEN_TIMER", "SCREEN_SETUP") /\ LeftIn(lastStep'.in) /\ ~statusFlg]_vars

\* after a game was played and reset, a long Right hold has taken Setup back to ModeSelect
C11_Witness ==
    /\ lastStep.kind = "buttons"
    /\ lastStep.screen = "SCREEN_SETUP"
    /\ currentScreen = "SCREEN_MODE_SELECT"
    /\ pauseFlg

(***************************************************************************)
(* Properties of starting, pausing and resuming                            *)
(***************************************************************************)
\* the step just taken was the confirmation on the Setup screen
StartHandled ==
    /\ lastStep.kind = "buttons"
    /\ lastStep.screen = "SCREEN_SETUP"
    /\ currentScreen = "SCREEN_TIMER"

\* the reading that describes how the device lies: the one the IMU offered in
\* this pass of loop(), or the stored one when it offered nothing new
DeviceReading ==
    IF lastStep.unread = NoSample THEN accel ELSE lastStep.unread

FaceOrDefault(orientation) == IF orientation >= 0 THEN orientation ELSE 4

\* C12: on confirmation of the Setup screen the entered digits are committed
\* (to every slot in Game mode, to the move base and remaining time in Move
\* mode), every warning flag is false, the timer runs, and the active face is
\* the face the device lies on at the moment of the press, or face 4 if it
\* lies on none.
C12_StartFromOrientation ==
    StartHandled =>
        /\ IF currentTimerMode = "GAME_TIMER"
           THEN \A i \in Players : timeList[i] = DigitsToSeconds(dig) /\ negativeList[i] = 0
           ELSE moveTimerDig = dig /\ moveTimeRemaining = DigitsToSeconds(dig)
        /\ \A w \in WarningTimes : \A i \in Players : ~warningFlags[w][i]
        /\ statusFlg
        /\ currentFace = FaceOrDefault(detectOrientationAt(DeviceReading, threshold))

\* the timer was started while the device lay on the edge of player 1
C12_Witness ==
    /\ StartHandled
    /\ lastStep.unread = SampleP1

\* the timer is stopped on the Timer screen
Paused == currentScreen = "SCREEN_TIMER" /\ ~statusFlg

\* C13: while the timer is paused on the Timer screen no slot, no move-timer
\* value and no displayed digit changes, whatever time passes and however the
\* device is turned; on resume the active face is re-seeded from the current
\* classification (face 4 if none) instead of the face shown before the pause.
C13_PausedIsFrozen ==
    [][Paused /\ currentScreen' = "SCREEN_TIMER" =>
          /\ timeList' = timeList
          /\ negativeList' = negativeList
          /\ moveTimeRemaining' = moveTimeRemaining
          /\ dig' = dig
          /\ \A k \in 1..Len(draws') : draws'[k].text = dig
          /\ statusFlg' =>
                 currentFace' = FaceOrDefault(detectOrientationAt(accel', threshold))]_vars

\* a paused timer was resumed on another face than the one shown before the pause
C13_Witness ==
    /\ lastStep.kind = "buttons"
    /\ lastStep.screen = "SCREEN_TIMER"
    /\ lastStep.in.b
    /\ statusFlg
    /\ lastStep.prevFace # currentFace
    /\ dig # <<0, 0, 0, 0>>

(***************************************************************************)
(* Properties of the running tick                                          *)
(***************************************************************************)
\* the step being taken is a running tick that classifies no face
NoneTick == lastStep'.kind = "timer" /\ lastStep'.fired /\ lastStep'.orientation = -1

\* C14: a running tick that classifies no face (face-down included) keeps the
\* active face and changes no slot and no move-timer value.
C14_NoneTickFreezes ==
    [][NoneTick =>
          /\ currentFace' = currentFace
          /\ timeList' = timeList
          /\ negativeList' = negativeList
          /\ moveTimeRemaining' = moveTimeRemaining]_vars

\* a running tick was taken face-down or in no clear orientation, with time
\* left on the active face
C14_Witness ==
    /\ TickFired
    /\ lastStep.orientation = -1
    /\ accel \in {SampleNone, SampleDown}
    /\ statusFlg
    /\ IF currentTimerMode = "GAME_TIMER"
       THEN isValidPlayerIndex(currentFace) /\ timeList[currentFace] > 0
       ELSE moveTimeRemaining > 0

\* the reading satisfies the condition of one of the five faces
MatchesFace(a) ==
    \/ a[2] >= threshold \/ a[2] <= -threshold
    \/ a[1] >= threshold \/ a[1] <= -threshold
    \/ a[3] >= threshold

\* C15: auto-pause (pauseFlg set and the display switched off) happens only on
\* a running tick whose reading classifies as no face and has
\* z <= ACCEL_THRESHOLD_BACK; a reading with z <= -threshold that also
\* matches a face is treated as that face and never pauses.
C15_PauseOnlyFaceDown ==
    [][/\ (~pauseFlg /\ pauseFlg') \/ (isDisplayOn /\ ~isDisplayOn') =>
              /\ NoneTick
              /\ ~MatchesFace(accel)
              /\ accel[3] <= ACCEL_THRESHOLD_BACK
              /\ pauseFlg' /\ ~isDisplayOn'
       /\ lastStep'.kind = "timer" /\ lastStep'.fired /\ MatchesFace(accel) =>
              /\ ~pauseFlg'
              /\ currentFace' = detectOrientationAt(accel, threshold)
              /\ currentFace' >= 0]_vars

\* a running tick was taken with the device on the edge of player 1 and
\* z <= -threshold, while the display was lit
C15_Witness ==
    /\ TickFired
    /\ accel = SampleP1Down
    /\ accel[3] <= ACCEL_THRESHOLD_BACK
    /\ currentFace = 0
    /\ isDisplayOn

\* the step being taken is a running Game-mode tick on face f
GameTickOn(f) ==
    /\ lastStep'.kind = "timer" /\ lastStep'.fired
    /\ currentTimerMode = "GAME_TIMER"
    /\ lastStep'.orientation = f

\* C16: the stored seconds of every player slot are >= 0 in every reachable
\* state: a counting slot is never decremented below 0, and the tick that
\* would take it below 0 sets the overtime flag instead, in the same step.
C16_SlotsNeverNegative ==
    /\ [](\A i \in Players : timeList[i] >= 0 /\ negativeList[i] \in {0, 1})
    /\ [][\A f \in Players :
              GameTickOn(f) /\ negativeList[f] = 0 =>
                  IF timeList[f] > 0
                  THEN timeList'[f] = timeList[f] - 1 /\ negativeList'[f] = 0
                  ELSE negativeList'[f] = 1 /\ timeList'[f] >= 0]_vars

\* the slot of the active face has just gone from 0 into overtime
C16_Witness ==
    /\ TickFired
    /\ currentTimerMode = "GAME_TIMER"
    /\ lastStep.orientation = currentFace
    /\ currentFace \in Players
    /\ negativeList[currentFace] = 1
    /\ timeList[currentFace] = 1
    /\ dig = <<0, 0, 0, 0>>

\* the step being taken is a running Move-mode tick on the face already active
MoveTickOnHeldFace ==
    /\ lastStep'.kind = "timer" /\ lastStep'.fired
    /\ currentTimerMode = "MOVE_TIMER"
    /\ lastStep'.orientation >= 0
    /\ lastStep'.orientation = currentFace

\* the step being taken is a running tick that detects a change of face
FaceChangeTick ==
    /\ lastStep'.kind = "timer" /\ lastStep'.fired
    /\ lastStep'.orientation >= 0
    /\ lastStep'.orientation # currentFace

\* C17: in Move-Timer mode 0 <= moveTimeRemaining <= base in every reachable
\* state; each tick on a held valid face decrements it by 1 while it is
\* positive, and once it is 0 it stays 0 (no overtime count) until a face
\* change resets it.
C17_MoveWithinBase ==
    /\ [](currentTimerMode = "MOVE_TIMER" =>
              0 <= moveTimeRemaining /\ moveTimeRemaining <= baseSeconds)
    /\ [][MoveTickOnHeldFace =>
              moveTimeRemaining' = IF moveTimeRemaining > 0
                                   THEN moveTimeRemaining - 1 ELSE 0]_vars
    /\ [][/\ MoveRunning /\ MoveRunning'
          /\ moveTimeRemaining = 0 /\ moveTimeRemaining' # 0
          => FaceChangeTick /\ moveTimeRemaining' = baseSeconds - 1]_vars

\* a tick on the held face found the move countdown at 0 and left it there
C17_Witness ==
    /\ TickFired
    /\ currentTimerMode = "MOVE_TIMER"
    /\ lastStep.orientation = lastStep.prevFace
    /\ lastStep.orientation = currentFace
    /\ lastStep.prevMove = 0
    /\ moveTimeRemaining = 0
    /\ baseSeconds > 0

(***************************************************************************)
(* Properties of the Move-mode display                                     *)
(***************************************************************************)
\* C18: in Move-Timer mode the expired colour (red) is used only when the
\* displayed time is 00:00: every draw of a non-zero time, 00:01 included,
\* uses the normal colour, and every draw of an expired 00:00 the expired one.
C18_RedOnlyAtZero ==
    MoveRunning =>
        \A k \in 1..Len(draws) :
            draws[k].fn \in TimerDrawCalls =>
                (draws[k].color = "COLOR_RED" <=> draws[k].text = <<0, 0, 0, 0>>)

\* a running Move-mode tick has just drawn 00:01
C18_Witness ==
    /\ MoveRunning
    /\ TickFired
    /\ \E k \in 1..Len(draws) :
           draws[k].fn \in TimerDrawCalls /\ draws[k].text = <<0, 0, 0, 1>>

(***************************************************************************)
(* Properties of the long press                                            *)
(***************************************************************************)
\* the pass being taken sees Right held, by button or by touch, and nothing else
OnlyRightHeld ==
    /\ lastStep'.kind = "buttons"
    /\ RightHeldIn(lastStep'.in)
    /\ ~LeftIn(lastStep'.in) /\ ~CenterIn(lastStep'.in)

\* the press of Right was already being tracked before this pass
HoldContinues ==
    IF lastStep'.in.cHeld THEN btnCPressTime = 1 ELSE touchRightCurrentlyPressed

\* how long Right has been held when this pass looks at it
HoldAge ==
    (IF lastStep'.in.cHeld THEN btnCHeldMs ELSE touchRightHeldMs) + lastStep'.in.ms

\* C19: holding Right for at least 1000 ms on the Setup screen returns to
\* ModeSelect; a Right hold of any length on any other screen causes no screen
\* change, and a Right press released before 1000 ms never triggers the return.
C19_LongPressOnSetup ==
    [][/\ ( /\ currentScreen = "SCREEN_SETUP" /\ holdFrom = "SCREEN_SETUP"
            /\ lastStep'.kind = "buttons" /\ RightHeldIn(lastStep'.in)
            /\ HoldContinues /\ HoldAge >= LONG_PRESS_DURATION )
          => currentScreen' = "SCREEN_MODE_SELECT"
       /\ OnlyRightHeld /\ currentScreen # "SCREEN_SETUP"
          => currentScreen' = currentScreen
       /\ Edge("SCREEN_SETUP", "SCREEN_MODE_SELECT")
          => /\ RightHeldIn(lastStep'.in) /\ HoldContinues
             /\ HoldAge >= LONG_PRESS_DURATION]_vars

\* a hold of Right that began on the Setup screen and was seen twice, half the
\* long-press time apart each, has returned to ModeSelect
C19_Witness ==
    /\ lastStep.kind = "buttons"
    /\ lastStep.screen = "SCREEN_SETUP"
    /\ currentScreen = "SCREEN_MODE_SELECT"
    /\ lastStep.in.ms = LONG_PRESS_DURATION \div 2
    /\ RightHeldIn(lastStep.in)
    /\ holdFrom = "SCREEN_SETUP"

\* C20: a long press in progress is abandoned when the screen changes: a hold
\* of Right that began on another screen and is still held after Setup is
\* entered does not trigger the return to ModeSelect; only a hold that starts
\* and lasts 1000 ms within Setup does.
C20_HoldAbandonedOnScreenChange ==
    [][Edge("SCREEN_SETUP", "SCREEN_MODE_SELECT") => holdFrom = "SCREEN_SETUP"]_vars

\* Setup has just been entered by Center while Right, pressed on ModeSelect, is
\* still held
C20_Witness ==
    /\ lastStep.kind = "buttons"
    /\ lastStep.screen = "SCREEN_MODE_SELECT"
    /\ currentScreen = "SCREEN_SETUP"
    /\ lastStep.in.cHeld
    /\ btnCPressTime = 1
    /\ ~btnCLongPressed
    /\ holdFrom = "SCREEN_MODE_SELECT"

(***************************************************************************)
(* The firmware with every clock of loop() running: battery schedule,      *)
(* timer tick and blink tick may each be due or not in a pass. Durations   *)
(* of at most MaxDrawSeconds are entered and the device lies on an edge,   *)
(* in no clear orientation, or face-down.                                  *)
(***************************************************************************)
MaxDrawSeconds == 1

DrawInputs ==
    {NoInput, PressA, PressB, PressC}
        \cup (IF deviceType = "DEVICE_CORES3"
              THEN {Touch("left"), Touch("center")}
              ELSE {})

DrawSamples == {NoSample, SampleP1, SampleNone, SampleDown}

DrawProtocol(in) ==
    /\ PlayProtocol(in)
    /\ (currentScreen = "SCREEN_SETUP" /\ (in.a \/ in.touch = "left"))
           => DigitsToSeconds(incrementDigit(State).dig) <= MaxDrawSeconds

DrawIMU == \E sample \in DrawSamples : Offered(sample, {NoSample}) /\ PollIMU(sample)

DrawButtons == \E in \in DrawInputs : DrawProtocol(in) /\ HandleButtons(in)

DrawBattery == \E due \in BOOLEAN : ScheduleBattery(due)

DrawTimer == \E due \in BOOLEAN : (due => TickWithinBounds) /\ LoopTimer(due)

DrawBlink == \E due \in BOOLEAN : LoopBlink(due)

NextDraw == DrawIMU \/ DrawButtons \/ DrawBattery \/ DrawTimer \/ DrawBlink

SpecDraw == Init /\ [][NextDraw]_vars

(***************************************************************************)
(* Properties of the redraw flags                                          *)
(***************************************************************************)
\* C21: while the display is off no draw operation is performed by any path
\* (tick, blink, button handler), and needsFullRedraw and needsBatteryUpdate
\* are never cleared: a flag set while the display is off is still set when
\* the display turns on.
C21_NoDrawWhileOff ==
    [][/\ \A k \in 1..Len(draws') : draws'[k].lit
       /\ (~isDisplayOn /\ ~isDisplayOn') =>
              /\ draws' = <<>>
              /\ needsFullRedraw => needsFullRedraw'
              /\ needsBatteryUpdate => needsBatteryUpdate']_vars

\* a running tick was taken while the display was off and a battery update
\* scheduled in the dark is still pending
C21_Witness ==
    /\ ~isDisplayOn
    /\ TickFired
    /\ lastStep.orientation = -1
    /\ needsBatteryUpdate
    /\ ~needsFullRedraw

FullDrawCalls ==
    {"drawSoundSelectScreenFull", "drawModeSelectScreenFull", "drawSetupModeFull",
     "drawTimerDisplayFull"}

\* C22: every wake of the display (off to on, by button or touch activity or
\* by a tick that recovers a valid face) sets needsFullRedraw and
\* needsBatteryUpdate, so the first draw performed after a wake is a full
\* redraw, never a partial update: the wake leaves both flags set or draws in
\* full at once, a pending needsFullRedraw is cleared only by a full redraw,
\* and while it is pending nothing else is drawn first.
C22_WakeForcesFullRedraw ==
    [][/\ (~isDisplayOn /\ isDisplayOn') =>
              IF draws' = <<>>
              THEN needsFullRedraw' /\ needsBatteryUpdate'
              ELSE draws'[1].fn \in FullDrawCalls
       /\ (needsFullRedraw /\ draws' # <<>>) => draws'[1].fn \in FullDrawCalls
       /\ (needsFullRedraw /\ ~needsFullRedraw') =>
              draws' # <<>> /\ draws'[1].fn \in FullDrawCalls]_vars

\* a press has just woken a dark display on which no redraw was pending
C22_Witness ==
    /\ lastStep.kind = "buttons"
    /\ ~lastStep.wasOn
    /\ isDisplayOn
    /\ lastStep.in # NoInput
    /\ needsFullRedraw /\ needsBatteryUpdate
    /\ statusFlg

PartialDrawCalls ==
    {"updateSoundSelectOnly", "updateModeSelectOnly", "updateSetupTimerOnly",
     "updateTimerOnly"}

DrawsOf(calls) == {k \in 1..Len(draws') : draws'[k].fn \in calls}

\* what a partial update does: it is made only with needsFullRedraw false,
\* repaints the battery indicator exactly when needsBatteryUpdate was set, and
\* leaves needsBatteryUpdate false
PartialUpdatePolicy ==
    DrawsOf(PartialDrawCalls) # {} =>
        /\ ~needsFullRedraw /\ ~needsFullRedraw'
        /\ DrawsOf(FullDrawCalls) = {}
        /\ DrawsOf({"drawBatteryInfo"}) # {} <=> needsBatteryUpdate
        /\ ~needsBatteryUpdate'

\* the step being taken is Center pausing a running timer
PauseStep ==
    /\ lastStep'.kind = "buttons"
    /\ currentScreen = "SCREEN_TIMER" /\ statusFlg /\ ~statusFlg'

\* C23 as stated: whenever a full redraw is performed, needsFullRedraw and
\* needsBatteryUpdate are both false afterwards; a partial update is performed
\* only when needsFullRedraw is false, redraws the battery indicator exactly
\* when needsBatteryUpdate was set, and leaves needsBatteryUpdate false.
C23_FullRedrawClearsFlags ==
    [][/\ DrawsOf(FullDrawCalls) # {} => ~needsFullRedraw' /\ ~needsBatteryUpdate'
       /\ PartialUpdatePolicy]_vars

\* C23, amended: a full redraw performed by the tick or by the blink leaves
\* needsFullRedraw and needsBatteryUpdate false; the full redraw performed by
\* a pause (Center while running) leaves both flags set; a partial update is
\* performed only when needsFullRedraw is false, redraws the battery indicator
\* exactly when needsBatteryUpdate was set, and leaves needsBatteryUpdate false.
C23_FullRedrawClearsFlagsExceptPause ==
    [][/\ DrawsOf(FullDrawCalls) # {} =>
              IF lastStep'.kind \in {"timer", "blink"}
              THEN ~needsFullRedraw' /\ ~needsBatteryUpdate'
              ELSE PauseStep /\ needsFullRedraw' /\ needsBatteryUpdate'
       /\ PartialUpdatePolicy]_vars

\* Center has just paused the timer with the display on: the timer was redrawn
\* in full and both flags are set
C23_Witness ==
    /\ lastStep.kind = "buttons"
    /\ lastStep.screen = "SCREEN_TIMER"
    /\ currentScreen = "SCREEN_TIMER"
    /\ ~statusFlg
    /\ Len(draws) = 1
    /\ draws[1].fn = "drawTimerDisplayFull"
    /\ needsFullRedraw /\ needsBatteryUpdate

(***************************************************************************)
(* An M5Stack Fire whose user only ever presses Center, under the          *)
(* scheduling the hardware guarantees: loop() is called again and again,   *)
(* and as millis() advances each of the three intervals (battery, tick,    *)
(* blink) elapses again and again. Nothing is assumed about when Center is *)
(* pressed or about the orientation of the device.                         *)
(***************************************************************************)
StaleInputs == {NoInput, PressB}

StaleSamples == {NoSample, SampleP1, SampleNone}

StaleIMU == \E sample \in StaleSamples : Offered(sample, {NoSample}) /\ PollIMU(sample)

StaleButtons == \E in \in StaleInputs : HandleButtons(in)

StaleBattery == \E due \in BOOLEAN : ScheduleBattery(due)

StaleTimer == \E due \in BOOLEAN : (due => TickWithinBounds) /\ LoopTimer(due)

StaleBlink == \E due \in BOOLEAN : LoopBlink(due)

NextStale == StaleIMU \/ StaleButtons \/ StaleBattery \/ StaleTimer \/ StaleBlink

InitStale == Init /\ deviceType = "DEVICE_FIRE"

SpecStale ==
    /\ InitStale /\ [][NextStale]_vars
    /\ WF_vars(NextStale)
    /\ SF_vars(ScheduleBattery(TRUE))
    /\ SF_vars(TickWithinBounds /\ LoopTimer(TRUE))
    /\ SF_vars(LoopBlink(TRUE))

\* the step just taken repainted the battery indicator
BatteryDrawn == \E k \in 1..Len(draws) : draws[k].battery

\* C24: while the display is on the battery indicator never stays stale: on
\* every screen, the Timer screen while stopped or in no clear orientation
\* included, each setting of needsBatteryUpdate is followed by a redraw of the
\* battery indicator (or by the display going off; counting stops at the
\* bounds of the model).
C24_BatteryNeverStale ==
    (isDisplayOn /\ needsBatteryUpdate) ~> (BatteryDrawn \/ ~isDisplayOn \/ ~TickWithinBounds)

\* a battery update is pending on the lit Timer screen while the timer is stopped
C24_Witness ==
    /\ currentScreen = "SCREEN_TIMER"
    /\ ~statusFlg
    /\ isDisplayOn
    /\ needsBatteryUpdate
    /\ lastStep.kind = "battery"

(***************************************************************************)
(* SpecClock: loop() with the millisecond counter followed.  A pass reads  *)
(* millis() once at its top into currentTime; Start and Resume read it     *)
(* again inside handleButtons(), up to MaxLagMs later; the pass ends       *)
(* one of PassMs after it began.  The counter is ULONG_BITS wide and       *)
(* starts at power-up or WrapLead ms before it wraps; MaxClockMs ms are    *)
(* followed.  The device is a Fire, only Center is pressed, and the cube   *)
(* lies on player 1's face or is not read.                                 *)
(***************************************************************************)
MaxClockMs == 3000
MaxLagMs == 1
WrapLead == 1500

\* t + ms in unsigned long arithmetic, for 0 <= ms < HalfRange
plusMs(t, ms) ==
    <<(t[1] + (t[2] + ms) \div HalfRange) % HalfRange, (t[2] + ms) % HalfRange>>

\* t - last in unsigned long arithmetic
elapsedSince(t, last) ==
    <<(t[1] - last[1] - (IF t[2] < last[2] THEN 1 ELSE 0)) % HalfRange,
      (t[2] - last[2]) % HalfRange>>

\* d >= interval for an unsigned long d and 0 <= interval < HalfRange
atLeast(d, interval) == d[1] > 0 \/ d[2] >= interval

\* millis() - currentTime: the time passed since the top of the pass, which
\* is below HalfRange
Lag == elapsedSince(now, currentTime)[2]

PassMs == {200, 1000}
ClockInputs == {NoInput, PressB}
ClockSamples == {NoSample, SampleP1}

Capped(ms, cap) == IF ms > cap THEN cap ELSE ms

\* the counter moves on by ms
Elapse(ms) ==
    /\ uptime + ms <= MaxClockMs
    /\ now' = plusMs(now, ms)
    /\ uptime' = uptime + ms

\* loop(): unsigned long currentTime = millis(), then the IMU part
ClockIMU ==
    /\ \E sample \in ClockSamples : Offered(sample, {NoSample}) /\ imuPhase(sample)
    /\ currentTime' = now
    /\ UNCHANGED <<now, uptime, lastTimerUpdate, lastBlinkUpdate,
                   sinceTimerFire, sinceBlinkFire, sincePress, twin>>

\* handleButtons(); Start and Resume set lastTimerUpdate = millis()
ClockButtons ==
    /\ \E in \in ClockInputs : buttonsPhase(in)
    /\ \E lag \in 0..MaxLagMs :
          /\ Elapse(lag)
          /\ sinceTimerFire' = Capped(sinceTimerFire + lag, TIMER_INTERVAL + MaxLagMs)
          /\ sinceBlinkFire' = Capped(sinceBlinkFire + lag, BLINK_INTERVAL + MaxLagMs)
          /\ sincePress' = IF ~statusFlg /\ statusFlg' THEN 0
                           ELSE Capped(sincePress + lag, TIMER_INTERVAL + MaxLagMs)
    /\ lastTimerUpdate' = IF ~statusFlg /\ statusFlg' THEN now' ELSE lastTimerUpdate
    /\ UNCHANGED <<currentTime, lastBlinkUpdate, twin>>

\* the battery interval is left to the environment
ClockBattery ==
    /\ \E due \in BOOLEAN : batteryPhase(due)
    /\ UNCHANGED <<clockVars, twin>>

\* currentTime - lastTimerUpdate >= TIMER_INTERVAL, lastTimerUpdate = currentTime
ClockTimer ==
    LET due == atLeast(elapsedSince(currentTime, lastTimerUpdate), TIMER_INTERVAL)
        fires == currentScreen = "SCREEN_TIMER" /\ statusFlg /\ due
    IN  /\ fires => TickWithinBounds
        /\ timerPhase(due)
        /\ lastTimerUpdate' = IF fires THEN currentTime ELSE lastTimerUpdate
        /\ sinceTimerFire' = IF fires THEN Lag ELSE sinceTimerFire
        /\ UNCHANGED <<now, currentTime, uptime, lastBlinkUpdate, sinceBlinkFire,
                       sincePress, twin>>

\* currentTime - lastBlinkUpdate >= BLINK_INTERVAL, lastBlinkUpdate = currentTime;
\* then delay(10), and the pass is over
ClockBlink ==
    LET due == atLeast(elapsedSince(currentTime, lastBlinkUpdate), BLINK_INTERVAL)
        fires == currentScreen # "SCREEN_TIMER" /\ due
        lag == Lag
    IN  /\ blinkPhase(due)
        /\ lastBlinkUpdate' = IF fires THEN currentTime ELSE lastBlinkUpdate
        /\ \E pass \in PassMs :
              /\ Elapse(pass - lag)
              /\ sinceTimerFire' = Capped(sinceTimerFire + pass - lag,
                                          TIMER_INTERVAL + MaxLagMs)
              /\ sinceBlinkFire' = Capped((IF fires THEN lag ELSE sinceBlinkFire)
                                              + pass - lag,
                                          BLINK_INTERVAL + MaxLagMs)
              /\ sincePress' = Capped(sincePress + pass - lag, TIMER_INTERVAL + MaxLagMs)
        /\ UNCHANGED <<currentTime, lastTimerUpdate, twin>>

NextClock == ClockIMU \/ ClockButtons \/ ClockBattery \/ ClockTimer \/ ClockBlink

\* the device has been lying on the first screen for nearly 2^32 ms
ClockNearWrap ==
    /\ now = <<HalfRange - 1, HalfRange - WrapLead>>
    /\ currentTime = now
    /\ lastTimerUpdate = <<0, 0>>
    /\ lastBlinkUpdate = now
    /\ uptime = 0
    /\ sinceTimerFire = TIMER_INTERVAL
    /\ sinceBlinkFire = 0
    /\ sincePress = TIMER_INTERVAL

InitClock ==
    /\ BootGlobals
    /\ deviceType = "DEVICE_FIRE"
    /\ accel = <<0, 0, 0>>
    /\ threshold = ACCEL_THRESHOLD
    /\ ClockBoot \/ ClockNearWrap
    /\ twin = NoTwin

SpecClock == InitClock /\ [][NextClock]_vars

TimerFires == lastStep'.kind = "timer" /\ lastStep'.fired
BlinkFires == lastStep'.kind = "blink" /\ lastBlinkUpdate' # lastBlinkUpdate

\* C25: the timer tick and the blink tick fire at most once per pass of
\* loop(), and two consecutive firings of the same clock are at least its
\* interval apart on the millisecond counter, also across its wrap-around.
C25_TicksNeverDoubleFire ==
    [][/\ TimerFires =>
            /\ pc = "timer" /\ pc' = "blink"
            /\ sinceTimerFire - Lag >= TIMER_INTERVAL
       /\ BlinkFires =>
            /\ pc = "blink" /\ pc' = "imu"
            /\ sinceBlinkFire - Lag >= BLINK_INTERVAL]_vars

\* a tick fires in the pass of a Resume, after the counter has wrapped
C25_Witness ==
    /\ lastStep.kind = "timer" /\ lastStep.fired
    /\ now[2] < uptime
    /\ lastTimerUpdate = currentTime
    /\ Lag > 0
    /\ sinceTimerFire = Lag
    /\ \E i \in Players : negativeList[i] = 1 /\ timeList[i] > 1

\* C26: blinkState is toggled only by the blink part of loop() and only
\* while the current screen is not Timer; on the Timer screen, running or
\* stopped, no step changes blinkState.
C26_BlinkOnlyOffTimer ==
    [][/\ currentScreen = "SCREEN_TIMER" => blinkState' = blinkState
       /\ blinkState' # blinkState
            => /\ lastStep'.kind = "blink"
               /\ currentScreen # "SCREEN_TIMER"
               /\ blinkState' = ~blinkState]_vars

\* a blink interval elapses on the Timer screen, running and stopped
C26_Witness ==
    /\ lastStep.kind = "blink"
    /\ currentScreen = "SCREEN_TIMER"
    /\ blinkState = FALSE
    /\ \E i \in Players : negativeList[i] = 1

(***************************************************************************)
(* SpecDial: the duration is dialled.  On a Fire the user goes to the      *)
(* Setup screen with Center and there presses Left and Right in any order, *)
(* without bound; the timer is not started.                                *)
(***************************************************************************)
DialInputs == {NoInput, PressA, PressB, PressC}

DialProtocol(in) ==
    /\ in.b => currentScreen \in {"SCREEN_SOUND_SELECT", "SCREEN_MODE_SELECT"}
    /\ (in.a \/ in.c) => currentScreen = "SCREEN_SETUP"

DialIMU == PollIMU(NoSample)
DialButtons == \E in \in DialInputs : DialProtocol(in) /\ HandleButtons(in)
DialBattery == \E due \in BOOLEAN : ScheduleBattery(due)
DialTimer == \E due \in BOOLEAN : LoopTimer(due)
DialBlink == \E due \in BOOLEAN : LoopBlink(due)

NextDial == DialIMU \/ DialButtons \/ DialBattery \/ DialTimer \/ DialBlink

InitDial == Init /\ deviceType = "DEVICE_FIRE"

SpecDial == InitDial /\ [][NextDial]_vars

MaxDigit == <<MAX_DIGIT_TENS_MINUTES, MAX_DIGIT_ONES, MAX_DIGIT_TENS_SECONDS, MAX_DIGIT_ONES>>

LeftOnSetup ==
    /\ currentScreen = "SCREEN_SETUP"
    /\ lastStep'.kind = "buttons" /\ lastStep'.in = PressA

RightOnSetup ==
    /\ currentScreen = "SCREEN_SETUP"
    /\ lastStep'.kind = "buttons" /\ lastStep'.in = PressC

\* C27: every digit of the Setup screen stays within its clamp (5, 9, 5, 9)
\* and the cursor within 0..3; Left increments only the digit under the
\* cursor, from its maximum to 0, and leaves the other digits and the cursor
\* as they are; Right moves the cursor 0, 1, 2, 3, 0 and changes no digit.
C27_DigitsAndCursor ==
    [][/\ \A k \in 1..4 : dig'[k] \in 0..MaxDigit[k]
       /\ updatePosition' \in 0..3
       /\ LeftOnSetup =>
            /\ \A k \in 1..4 :
                  dig'[k] = IF k # updatePosition + 1 THEN dig[k]
                            ELSE IF dig[k] = MaxDigit[k] THEN 0 ELSE dig[k] + 1
            /\ updatePosition' = updatePosition
       /\ RightOnSetup =>
            /\ dig' = dig
            /\ updatePosition' = IF updatePosition = 3 THEN 0 ELSE updatePosition + 1
       /\ (currentScreen = "SCREEN_SETUP" /\ ~LeftOnSetup) => dig' = dig
       /\ (currentScreen = "SCREEN_SETUP" /\ ~RightOnSetup)
            => updatePosition' = updatePosition]_vars

\* the tens-of-seconds digit has just wrapped from 5 to 0 beside three
\* digits at their maxima
C27_Witness ==
    /\ currentScreen = "SCREEN_SETUP"
    /\ lastStep.kind = "buttons" /\ lastStep.in = PressA
    /\ updatePosition = 2
    /\ dig = <<5, 9, 0, 9>>

\* C28: the timer never stops by itself: statusFlg goes from true to false
\* only in a step of handleButtons() in which Center is pressed on the Timer
\* screen (pause); no tick, face switch, expiry, overtime or face-down
\* reading clears it.
C28_StopsOnlyByCenter ==
    [][(statusFlg /\ ~statusFlg')
          => /\ lastStep'.kind = "buttons"
             /\ CenterIn(lastStep'.in)
             /\ currentScreen = "SCREEN_TIMER"]_vars

\* statusFlg is set on the Setup screen and Right is being held there: the
\* long press will clear it with no Center press
C28_Witness ==
    /\ currentScreen = "SCREEN_SETUP"
    /\ statusFlg
    /\ lastStep.kind = "buttons"
    /\ RightHeldIn(lastStep.in) /\ ~CenterIn(lastStep.in)
    /\ holdFrom = "SCREEN_SETUP"

ResetHandled ==
    /\ currentScreen = "SCREEN_TIMER" /\ ~statusFlg
    /\ lastStep'.kind = "buttons" /\ LeftIn(lastStep'.in)

\* C29: Left on the stopped Timer screen leads to the Setup screen with the
\* digits of the duration last dialled there (initDig), not those of the
\* last countdown or overtime shown; the Setup screen always shows that
\* duration, play does not alter it, and the next Start gives it to all five
\* players with overtime cleared (to the move timer in Move Timer mode).
C29_ResetRestoresConfigured ==
    [][/\ ResetHandled =>
            /\ currentScreen' = "SCREEN_SETUP"
            /\ dig' = initDig
       /\ currentScreen = "SCREEN_TIMER" => initDig' = initDig
       /\ currentScreen' = "SCREEN_SETUP" => dig' = initDig'
       /\ Edge("SCREEN_SETUP", "SCREEN_TIMER") =>
            /\ dig' = initDig'
            /\ currentTimerMode = "GAME_TIMER" =>
                  \A i \in Players : /\ timeList'[i] = DigitsToSeconds(initDig')
                                     /\ negativeList'[i] = 0
            /\ currentTimerMode = "MOVE_TIMER" =>
                  moveTimeRemaining' = DigitsToSeconds(initDig')]_vars

\* Left has just reset a stopped game in which a player was in overtime: the
\* Setup screen shows the dialled duration while the slots still hold the
\* values of the game
C29_Witness ==
    /\ currentScreen = "SCREEN_SETUP"
    /\ lastStep.kind = "buttons" /\ LeftIn(lastStep.in)
    /\ lastStep.screen = "SCREEN_TIMER"
    /\ DigitsToSeconds(dig) > 0
    /\ \E i \in Players : negativeList[i] = 1 /\ timeList[i] > 0

\* C30: a mode with a time bank can be selected: when a turn ends in a mode
\* other than Game Timer, the unused time max(0, base - used), which is what
\* is left of the move countdown, goes to a bank that only increases, and
\* the next turn starts with the base time plus the bank (less the second
\* the tick of the face change takes at once).
C30_UnusedTimeIsBanked ==
    [][(currentTimerMode # "GAME_TIMER" /\ FaceChangeTick)
          => moveTimeRemaining' >= baseSeconds + moveTimeRemaining - 1]_vars

\* a turn has just ended with time left in the only move mode there is, and
\* the next turn has started from the base time alone
C30_Witness ==
    /\ TickFired
    /\ currentTimerMode = "MOVE_TIMER"
    /\ lastStep.orientation # lastStep.prevFace
    /\ lastStep.prevMove > 0
    /\ baseSeconds > 1
    /\ moveTimeRemaining = baseSeconds - 1

\* C31: after Start or Resume the first timer tick comes no earlier than
\* TIMER_INTERVAL ms after the press, also when the millis() the handler
\* stored in lastTimerUpdate is later than the currentTime of the pass: no
\* tick fires in the pass that handled the press.
C31_FirstTickAfterInterval ==
    [][TimerFires => sincePress >= TIMER_INTERVAL]_vars

\* a tick has fired in the pass of a Start, with lastTimerUpdate stored
\* later than the currentTime read at the top of the pass
C31_Witness ==
    /\ lastStep.kind = "timer" /\ lastStep.fired
    /\ sincePress = 0
    /\ Lag > 0
    /\ \A i \in Players : negativeList[i] = 1 => timeList[i] = 1
    /\ \E i \in Players : negativeList[i] = 1

\* C32: in every reachable state statusFlg implies that the screen is Timer,
\* and startFlg is true exactly when the screen is Timer, also when Left and
\* Center are reported pressed in the same pass.
C32_RunningOnlyOnTimer ==
    /\ statusFlg => currentScreen = "SCREEN_TIMER"
    /\ startFlg <=> currentScreen = "SCREEN_TIMER"

\* Left and Center were pressed together on the stopped Timer screen: the
\* device is on the Setup screen with statusFlg set
C32_Witness ==
    /\ lastStep.kind = "buttons"
    /\ lastStep.in.a /\ lastStep.in.b
    /\ lastStep.screen = "SCREEN_TIMER"
    /\ currentScreen = "SCREEN_SETUP"
    /\ statusFlg /\ ~startFlg

\* C33: in every reachable state a dark display implies that the screen is
\* Timer, the timer is running and pauseFlg is set: the display is only ever
\* off during a face-down pause of a running timer.
C33_DarkOnlyWhenFaceDown ==
    ~isDisplayOn => /\ currentScreen = "SCREEN_TIMER"
                    /\ statusFlg
                    /\ pauseFlg

\* the display is dark after several passes of a face-down pause
C33_Witness ==
    /\ ~isDisplayOn
    /\ lastStep.kind = "timer" /\ lastStep.fired
    /\ lastStep.orientation = -1
    /\ pauseFlg /\ statusFlg
    /\ accel[3] <= ACCEL_THRESHOLD_BACK

\* a button or a touch is newly pressed in this pass
Pressed(in) ==
    \/ in.a \/ in.b \/ in.c
    \/ (deviceType = "DEVICE_CORES3" /\ in.touch # "none" /\ in.tWas)

FaceDownTick ==
    /\ lastStep'.kind = "timer" /\ lastStep'.fired
    /\ lastStep'.orientation = -1
    /\ accel[3] <= ACCEL_THRESHOLD_BACK

\* C35: whenever a running tick finds the device face-down (no face
\* classified and z <= ACCEL_THRESHOLD_BACK) the display is off after that
\* tick, also after a button press has woken the display while the device
\* stays face-down.
C35_FaceDownTickDarkens ==
    [][FaceDownTick => ~isDisplayOn']_vars

\* a tick has found the device face-down with pauseFlg already set and the
\* display lit by a press, and has left the display on
C35_Witness ==
    /\ lastStep.kind = "timer" /\ lastStep.fired
    /\ lastStep.orientation = -1
    /\ accel[3] <= ACCEL_THRESHOLD_BACK
    /\ pauseFlg /\ statusFlg
    /\ isDisplayOn

(***************************************************************************)
(* SpecTwin: two runs of the firmware on a Fire are given the same         *)
(* buttons, readings and ticks.  In the second run, twin, Left has been    *)
(* pressed once on the first screen, so that its Center there chooses      *)
(* Sound OFF where the first run chooses Sound ON; from then on Left is    *)
(* not pressed on that screen.  The environment is that of Spec.           *)
(***************************************************************************)
\* the second run's globals at the start of a step
Twin == [twin EXCEPT !.tones = <<>>, !.draws = <<>>]

TwinProtocol(in) ==
    /\ PlayProtocol(in)
    /\ DialWithinBounds(in)
    /\ currentScreen = "SCREEN_SOUND_SELECT" => ~in.a

TwinIMU ==
    \E sample \in PlaySamples \cup SetupSamples :
        /\ Offered(sample, SetupSamples)
        /\ imuPhase(sample)
        /\ twin' = IF twin.currentScreen = "SCREEN_TIMER"
                   THEN updateIMU(Twin, sample) ELSE Twin
        /\ UNCHANGED clockVars

TwinButtons ==
    \E in \in PlayInputs :
        /\ TwinProtocol(in)
        /\ buttonsPhase(in)
        /\ twin' = handleButtons(Twin, in)
        /\ UNCHANGED clockVars

TwinBattery ==
    /\ batteryPhase(FALSE)
    /\ twin' = Twin
    /\ UNCHANGED clockVars

TwinTimer ==
    \E due \in BOOLEAN :
        /\ due => TickWithinBounds
        /\ timerPhase(due)
        /\ twin' = IF twin.currentScreen = "SCREEN_TIMER" /\ twin.statusFlg /\ due
                   THEN timerBlock(Twin) ELSE Twin
        /\ UNCHANGED clockVars

TwinBlink ==
    /\ blinkPhase(FALSE)
    /\ twin' = Twin
    /\ UNCHANGED clockVars

NextTwin == TwinIMU \/ TwinButtons \/ TwinBattery \/ TwinTimer \/ TwinBlink

InitTwin ==
    /\ BootGlobals
    /\ ClockBoot
    /\ deviceType = "DEVICE_FIRE"
    /\ accel = <<0, 0, 0>>
    /\ threshold = ACCEL_THRESHOLD
    /\ twin = [State EXCEPT !.soundSelectPosition = 1]

SpecTwin == InitTwin /\ [][NextTwin]_vars

\* C36: two runs given the same button, orientation and tick events that
\* differ only in the Sound ON/OFF choice have the same screen, statusFlg,
\* pauseFlg, active face, player slots, overtime flags and move-timer value
\* after every step; with sound OFF no tone is emitted and no warning flag
\* is set.
C36_SoundChoiceChangesNoTiming ==
    /\ twin.currentScreen = currentScreen
    /\ twin.statusFlg = statusFlg
    /\ twin.pauseFlg = pauseFlg
    /\ twin.currentFace = currentFace
    /\ twin.timeList = timeList
    /\ twin.negativeList = negativeList
    /\ twin.moveTimeRemaining = moveTimeRemaining
    /\ ~twin.soundEnabled =>
          /\ twin.tones = <<>>
          /\ \A w \in WarningTimes : \A i \in Players : ~twin.warningFlags[w][i]

\* a tick has played a warning tone in the run with sound and none in the
\* run without
C36_Witness ==
    /\ lastStep.kind = "timer" /\ lastStep.fired
    /\ soundEnabled /\ ~twin.soundEnabled
    /\ tones # <<>>
    /\ \E w \in WarningTimes : \E i \in Players : warningFlags[w][i]
    /\ twin.tones = <<>>
    /\ twin.timeList = timeList

\* C37: once the overtime flag of a Game-Timer slot is set it stays set, and
\* the overtime count starts at 1 and grows by exactly 1 on each tick on
\* that slot's face, until a Start from the Setup screen initialises the
\* timers again; pause, resume, face switches, face-down pauses and the
\* reset to the Setup screen neither clear the flag nor change the count.
C37_OvertimeOnlyGrows ==
    [][\A f \in Players :
          /\ (negativeList[f] = 0 /\ negativeList'[f] = 1)
                => GameTickOn(f) /\ timeList'[f] = 1
          /\ (negativeList[f] = 1 /\ ~Edge("SCREEN_SETUP", "SCREEN_TIMER"))
                => /\ negativeList'[f] = 1
                   /\ timeList'[f] = IF GameTickOn(f) THEN timeList[f] + 1
                                     ELSE timeList[f]
          /\ (negativeList[f] = 1 /\ negativeList'[f] = 0)
                => /\ Edge("SCREEN_SETUP", "SCREEN_TIMER")
                   /\ currentTimerMode = "GAME_TIMER"]_vars

\* a resume after a pause has left a slot's overtime flag and count as they
\* were
C37_Witness ==
    /\ lastStep.kind = "buttons" /\ CenterIn(lastStep.in)
    /\ lastStep.screen = "SCREEN_TIMER"
    /\ statusFlg
    /\ currentTimerMode = "GAME_TIMER"
    /\ \E f \in Players : negativeList[f] = 1 /\ timeList[f] = 2

\* C38: isPlayingWarningSound is false in every state between the parts of
\* loop(), and where the tick decides whether to redraw: a tick on a valid
\* face with the display on draws the Timer screen in that same tick, also
\* when it has played a switch, warning or timeout tone.
C38_SoundGateNeverSkips ==
    /\ [](~isPlayingWarningSound)
    /\ [][(lastStep'.kind = "timer" /\ lastStep'.fired
              /\ lastStep'.orientation >= 0 /\ isDisplayOn')
            => \E k \in 1..Len(draws') : draws'[k].fn \in TimerDrawCalls]_vars

\* a tick has played a tone and has drawn the Timer screen
C38_Witness ==
    /\ TickFired
    /\ lastStep.orientation >= 0
    /\ tones # <<>>
    /\ \E k \in 1..Len(draws) : draws[k].fn \in TimerDrawCalls
    /\ ~isPlayingWarningSound

=============================================================================
